---- MODULE Spec2Model ----
(***************************************************************************)
(* A model of agent-scripts: the markdown -> ADF converter                 *)
(* (scripts/lib/md-to-adf.ts) and the acli temp-file helper                *)
(* (scripts/lib/acli/utils.ts).                                            *)
(*                                                                         *)
(* Strings are sequences of one-character strings, so that parsing,        *)
(* escaping and serialisation are computed character by character.         *)
(***************************************************************************)
EXTENDS Integers, Sequences, FiniteSets, TLC

VARIABLES
    \* ---- md-to-adf.ts, one conversion: a markdown text and what the two
    \* exported functions return for it
    shape,      \* how the text was made: [kind, n, k, w]
    input,      \* the markdown text
    adf,        \* markdownToAdf(input): [called, threw, value]
    adfString,  \* markdownToAdfString(input): [called, threw, value]
    \* ---- md-to-adf.ts, several callers of markdownToAdf
    heap,       \* the live document objects: object id -> document
    held,       \* per caller: [called, input, threw, ref] of its latest call
    \* ---- acli/utils.ts: withTempJson
    now,        \* Date.now(), in ms
    fs,         \* /tmp: path (a timestamp) -> id of the call whose data the file holds; 0 = no file
    pc,         \* per withTempJson call: where it is
    tmpPath,    \* per call: the tmpPath local (0 before it is computed)
    outcome,    \* per call: "none" | "returned" | "threw"
    \* ---- chrome/convenience.ts: withBrowser
    browser,    \* the runtime, the processes and the calls of withBrowser
    \* ---- the base executors of acli, gh and peekaboo
    executor,   \* one CLI invocation and what the executor made of it
    \* ---- gh/convenience.ts
    gh,         \* the runs of the workflow and one call of a convenience function
    \* ---- acli/workitem.ts: create and edit
    workitem,   \* the options of one call and the payload built from them
    \* ---- scripts/setup.ts and scripts/selfUpdate.ts
    script,     \* one run of a script and what it has changed
    \* ---- peekaboo/convenience.ts: waitForElement
    waiter,     \* one call of waitForElement
    \* ---- chrome/base.ts: the runtime and the overlapping calls that use it
    chrome,     \* the module's runtime, the runtimes made and the calls
    \* ---- webdev/index.ts: captureFullBrowser and testSession
    webdev,     \* one call of a webdev function (the browser is in browser)
    \* ---- peekaboo/convenience.ts: withApp
    app,        \* the app and one call of withApp
    \* ---- peekaboo/convenience.ts: unwrap
    peek        \* one executor result and what unwrap made of it

pureVars == <<shape, input, adf, adfString>>
convVars == <<heap, held>>
tempVars == <<now, fs, pc, tmpPath, outcome>>
restVars == <<browser, executor, gh, workitem, script, waiter>>
moreVars == <<chrome, webdev, app, peek>>
vars == <<shape, input, adf, adfString, heap, held, now, fs, pc, tmpPath, outcome,
          browser, executor, gh, workitem, script, waiter, chrome, webdev, app, peek>>

\* The parts of the state that a specification about other parts leaves idle.
IdleRest ==
    /\ browser = <<>> /\ executor = <<>> /\ gh = <<>>
    /\ workitem = <<>> /\ script = <<>> /\ waiter = <<>>

IdleMore == chrome = <<>> /\ webdev = <<>> /\ app = <<>> /\ peek = <<>>

\* The state of the conversions and of withTempJson with nothing under way.
IdleBase ==
    /\ shape = [kind |-> "empty", n |-> 0, k |-> 0, w |-> 0] /\ input = <<>>
    /\ adf = [called |-> FALSE, threw |-> FALSE, value |-> <<>>]
    /\ adfString = [called |-> FALSE, threw |-> FALSE, value |-> <<>>]
    /\ heap = <<>> /\ held = <<>>
    /\ now = 0 /\ fs = <<>> /\ pc = <<>> /\ tmpPath = <<>> /\ outcome = <<>>

(***************************************************************************)
(* Sequence helpers                                                        *)
(***************************************************************************)
Last(s) == s[Len(s)]

\* The one element of a singleton set.  {F(x) : x \in {e}} evaluates e once,
\* however often F uses x; the definitions below bind their arguments this
\* way, so that an argument is evaluated when the operator is entered and
\* not again at each of its uses.
The(S) == CHOOSE x \in S : TRUE

\* The sequence that the function f on 1..n is, its elements evaluated now
\* and not when they are first used.
AsSeq(f) == <<>> \o f

Min(S) == The({(CHOOSE x \in T : \A y \in T : x <= y) : T \in {S}})

Max(S) == The({(CHOOSE x \in T : \A y \in T : x >= y) : T \in {S}})

\* The concatenation of the sequences ss[1], ss[2], ...: its k-th element
\* is in the last piece that fewer than k elements come before.
Flatten(ss) ==
    The({The({AsSeq([k \in 1..(before[Len(t)] + Len(Last(t))) |->
                       The({t[i][k - before[i]] :
                            i \in {Max({j \in 1..Len(t) : before[j] < k})}})]) :
              before \in {AsSeq([i \in 1..Len(t) |->
                                   Cardinality(UNION {{<<j, e>> : e \in 1..Len(t[j])} :
                                                      j \in 1..(i - 1)})])}}) :
         t \in {IF ss = <<>> THEN << <<>> >> ELSE ss}})

\* The elements of the sequence s, each with its index.
Indexed(s) == {<<i, s[i]>> : i \in 1..Len(s)}

\* The sequence that a set of <<index, element>> pairs lists.
Listed(ps) == AsSeq([i \in 1..Cardinality(ps) |-> (CHOOSE p \in ps : p[1] = i)[2]])

\* The least and the greatest number of a set of positions; 0 for the empty set.
FirstOf(S) ==
    The({IF T = {} THEN 0 ELSE (CHOOSE x \in T : \A y \in T : x <= y) : T \in {S}})

LastOf(S) ==
    The({IF T = {} THEN 0 ELSE (CHOOSE x \in T : \A y \in T : x >= y) : T \in {S}})

\* The first index in lo..hi where s differs from c; 0 if there is none.
FirstOther(s, c, lo, hi) == FirstOf({i \in lo..hi : s[i] # c})

\* The last index in lo..hi where s differs from c; 0 if there is none.
LastOther(s, c, lo, hi) == LastOf({i \in lo..hi : s[i] # c})

\* The first index in lo..hi where pat occurs in s; 0 if there is none.
FirstMatch(s, pat, lo, hi) ==
    FirstOf({i \in lo..hi : SubSeq(s, i, i + Len(pat) - 1) = pat})

\* Number of leading elements of s equal to c.
RunLen(s, c) ==
    The({The({IF i = 0 THEN Len(t) ELSE i - 1 : i \in {FirstOther(t, c, 1, Len(t))}}) :
         t \in {s}})

\* First index i >= from where pat occurs in s; 0 if nowhere.
FindFrom(s, pat, from) ==
    The({FirstMatch(t, q, from, Len(t) - Len(q) + 1) : t \in {s}, q \in {pat}})

TrimLeft(s) == The({SubSeq(t, RunLen(t, " ") + 1, Len(t)) : t \in {s}})

TrimRight(s) == The({SubSeq(t, 1, LastOther(t, " ", 1, Len(t))) : t \in {s}})

Trim(s) == TrimLeft(TrimRight(s))

\* The numbers of a set in increasing order.
SortedSeq(S) ==
    The({AsSeq([k \in 1..Cardinality(T) |->
                  CHOOSE p \in T : Cardinality({q \in T : q < p}) = k - 1]) :
         T \in {S}})

\* s split at every occurrence of the character c (String.prototype.split):
\* the pieces between one occurrence (or the start) and the next (or the end).
SplitOn(s, c) ==
    The({AsSeq([k \in 1..(Len(at) - 1) |-> SubSeq(s, at[k] + 1, at[k + 1] - 1)]) :
         at \in {SortedSeq({0, Len(s) + 1} \cup {i \in 1..Len(s) : s[i] = c})}})

(***************************************************************************)
(* md-to-adf.ts: the schema handed to MarkdownTransformer.                 *)
(***************************************************************************)
\* createSchema({nodes: [...]}) without "hardBreak": a soft line break then
\* has no node to become.
SchemaNodesNoHardBreak ==
    {"doc", "paragraph", "text", "bulletList", "orderedList", "listItem",
     "heading", "blockquote", "codeBlock", "rule", "table", "tableRow",
     "tableCell", "tableHeader"}

\* createSchema({nodes: [...]}) without "heading".
SchemaNodesNoHeading ==
    {"doc", "paragraph", "text", "bulletList", "orderedList", "listItem",
     "blockquote", "codeBlock", "hardBreak", "rule", "table", "tableRow",
     "tableCell", "tableHeader"}

\* createSchema({nodes: [...]}) without "tableHeader": a header cell then has
\* no node to become.
SchemaNodesNoTableHeader ==
    {"doc", "paragraph", "text", "bulletList", "orderedList", "listItem",
     "heading", "blockquote", "codeBlock", "hardBreak", "rule", "table",
     "tableRow", "tableCell"}

SchemaNodes ==
    {"doc", "paragraph", "text", "bulletList", "orderedList", "listItem",
     "heading", "blockquote", "codeBlock", "hardBreak", "rule", "table",
     "tableRow", "tableCell", "tableHeader"}

\* createSchema({marks: [...]}) without "strike".
SchemaMarksNoStrike == {"strong", "em", "code", "link"}

SchemaMarks == {"strong", "em", "code", "link", "strike"}

(***************************************************************************)
(* ProseMirror nodes, as MarkdownTransformer.parse builds them.  Every     *)
(* node is a record of the same shape; an absent part is the empty         *)
(* sequence.  attrs is a sequence of <<key, JSON value>> pairs.            *)
(***************************************************************************)
Node(type, attrs, content) ==
    [type |-> type, attrs |-> attrs, content |-> content, marks |-> <<>>, text |-> <<>>]

TextNode(chars, marks) ==
    [type |-> "text", attrs |-> <<>>, content |-> <<>>, marks |-> marks, text |-> chars]

Mark(type) == [type |-> type, attrs |-> <<>>]

LinkMark(href) == [type |-> "link", attrs |-> << <<"href", <<"str", href>>>> >>]

\* Adjacent text with the same mark set is one text leaf.
AddText(acc, chars, marks) ==
    IF chars = <<>> THEN acc
    ELSE IF acc # <<>> /\ Last(acc).type = "text" /\ Last(acc).marks = marks
    THEN [acc EXCEPT ![Len(acc)].text = @ \o chars]
    ELSE Append(acc, TextNode(chars, marks))

IsSpace(c) == c = " " \/ c = "\n"

\* The backtick character (a TLA+ string cannot hold one).
Backtick == "BACKTICK"

\* The closing delimiter of an emphasis-like span: the first occurrence of
\* delim at or after from that follows a non-space character; a single "*"
\* closes only where it is not part of a longer run of "*".
RECURSIVE FindCloser(_, _, _)
FindCloser(s, delim, from) ==
    The({IF j = 0 THEN 0
         ELSE IF /\ ~IsSpace(s[j - 1])
                 /\ delim = <<"*">> =>
                       /\ s[j - 1] # "*"
                       /\ (j = Len(s) \/ s[j + 1] # "*")
              THEN j
              ELSE FindCloser(s, delim, j + 1) :
         j \in {FindFrom(s, delim, from)}})

\* The closing backtick run of a code span opened by a run of k backticks:
\* a run of exactly k.
RECURSIVE FindBackticks(_, _, _)
FindBackticks(s, k, from) ==
    The({IF j = 0 THEN 0
         ELSE The({IF n = k THEN j ELSE FindBackticks(s, k, j + n) :
                   n \in {RunLen(SubSeq(s, j, Len(s)), Backtick)}}) :
         j \in {FindFrom(s, <<Backtick>>, from)}})

\* The text of a code span: line endings become spaces, and one space is
\* stripped from each end when both ends have one and the text is not blank.
CodeText(s) ==
    The({IF Len(t) >= 2 /\ t[1] = " " /\ Last(t) = " " /\ Trim(t) # <<>>
         THEN SubSeq(t, 2, Len(t) - 1)
         ELSE t :
         t \in {The({AsSeq([i \in 1..Len(u) |-> IF u[i] = "\n" THEN " " ELSE u[i]]) :
                     u \in {s}})}})

\* A span delimiter at the head of s: the mark it opens and its length.
Delims == << <<"strong", <<"*", "*">> >>, <<"strike", <<"~", "~">> >>, <<"em", <<"*">> >> >>

\* Whether s starts with delim, followed by a non-space character (for a
\* single "*", not by another "*"), and the span is closed later.
OpensSpan(s, delim) ==
    /\ Len(s) > Len(delim)
    /\ SubSeq(s, 1, Len(delim)) = delim
    /\ ~IsSpace(s[Len(delim) + 1])
    /\ delim = <<"*">> => s[2] # "*"
    /\ FindCloser(s, delim, Len(delim) + 2) # 0

\* Where the link that starts at s[1] = "[" ends: <<index of "]", index of ")">>,
\* or <<0, 0>> when s does not start with [text](destination).
LinkAt(s) ==
    The({IF j = 0 \/ j >= Len(s) \/ s[j + 1] # "(" THEN <<0, 0>>
         ELSE The({IF k = 0 \/ \E i \in (j + 2)..(k - 1) : IsSpace(s[i]) THEN <<0, 0>>
                   ELSE <<j, k>> :
                   k \in {FindFrom(s, <<")">>, j + 2)}}) :
         j \in {FindFrom(s, <<"]">>, 2)}})

\* The characters that may start an inline construct.
Specials == {"\n", Backtick, "[", "*", "~"}

\* The index of the first character of s that may start an inline construct;
\* 0 when s has none.
FirstSpecial(s) == FirstOf({i \in 1..Len(s) : s[i] \in Specials})

\* The span delimiter that opens at the head of s, as an index into Delims;
\* 0 when none does.
OpenDelim(s, schemaMarks) ==
    FirstOf({d \in 1..Len(Delims) :
                Delims[d][1] \in schemaMarks /\ OpensSpan(s, Delims[d][2])})

\* What is left of an inline text, and the nodes made of what came before.
InlineState(s, acc) == [s |-> s, acc |-> acc]

RECURSIVE Inline(_, _, _, _)

\* One construct, at the head of s: a line break, a code span, a link or an
\* emphasis-like span with its content, or one literal character when the
\* head of s starts none.  A construct whose mark the schema lacks is not
\* enabled and stays literal text; so does an unclosed delimiter.
InlineConstruct(s, marks, acc, schemaMarks) ==
    IF s[1] = "\n" THEN
        InlineState(Tail(s), Append(acc, Node("hardBreak", <<>>, <<>>)))
    ELSE IF s[1] = Backtick /\ "code" \in schemaMarks THEN
        The({The({IF j = 0
                  THEN InlineState(SubSeq(s, k + 1, Len(s)),
                                   AddText(acc, SubSeq(s, 1, k), marks))
                  ELSE InlineState(SubSeq(s, j + k, Len(s)),
                                   AddText(acc, CodeText(SubSeq(s, k + 1, j - 1)),
                                           Append(marks, Mark("code")))) :
                  j \in {FindBackticks(s, k, k + 1)}}) :
             k \in {RunLen(s, Backtick)}})
    ELSE IF s[1] = "[" /\ "link" \in schemaMarks /\ LinkAt(s) # <<0, 0>> THEN
        The({InlineState(SubSeq(s, l[2] + 1, Len(s)),
                         Inline(SubSeq(s, 2, l[1] - 1),
                                Append(marks, LinkMark(SubSeq(s, l[1] + 2, l[2] - 1))),
                                acc, schemaMarks)) :
             l \in {LinkAt(s)}})
    ELSE IF OpenDelim(s, schemaMarks) # 0 THEN
        The({The({InlineState(SubSeq(s, j + Len(Delims[d][2]), Len(s)),
                              Inline(SubSeq(s, Len(Delims[d][2]) + 1, j - 1),
                                     Append(marks, Mark(Delims[d][1])), acc, schemaMarks)) :
                  j \in {FindCloser(s, Delims[d][2], Len(Delims[d][2]) + 2)}}) :
             d \in {OpenDelim(s, schemaMarks)}})
    ELSE InlineState(Tail(s), AddText(acc, <<s[1]>>, marks))

\* One step through an inline text: the plain text up to the first character
\* that may start a construct, and the construct there.
InlineStep(st, marks, schemaMarks) ==
    The({IF i = 0 THEN InlineState(<<>>, AddText(st.acc, st.s, marks))
         ELSE InlineConstruct(SubSeq(st.s, i, Len(st.s)), marks,
                              AddText(st.acc, SubSeq(st.s, 1, i - 1), marks),
                              schemaMarks) :
         i \in {FirstSpecial(st.s)}})

\* Up to n steps through an inline text, stopping at its end.  (The steps
\* are taken half by half, so that a long text does not make a deep
\* evaluation.)
RECURSIVE InlineSteps(_, _, _, _)
InlineSteps(state, n, marks, schemaMarks) ==
    The({IF st.s = <<>> \/ m = 0 THEN st
         ELSE IF m = 1 THEN InlineStep(st, marks, schemaMarks)
         ELSE InlineSteps(InlineSteps(st, m \div 2, marks, schemaMarks),
                          m - m \div 2, marks, schemaMarks) :
         st \in {state}, m \in {n}})

\* The inline content of text under the marks already open, after the nodes
\* of before: a sequence of text leaves and hard breaks.  Every step but the
\* last takes at least one of the characters that may start a construct, so
\* one step more than there are such characters reaches the end.
Inline(text, open, before, schemaMarks) ==
    The({InlineSteps(InlineState(s, before),
                     Cardinality({i \in 1..Len(s) : s[i] \in Specials}) + 1,
                     open, schemaMarks).acc :
         s \in {text}})

(***************************************************************************)
(* Block structure.                                                        *)
(***************************************************************************)
Blank(line) == Trim(line) = <<>>

\* The level of the ATX heading that line is: the number of its leading "#",
\* 1 to 6 of them, when a space or the end of the line follows; 0 when the
\* line is no heading.
HeadingLevel(line) ==
    The({IF k \in 1..6 /\ (Len(line) = k \/ line[k + 1] = " ") THEN k ELSE 0 :
         k \in {RunLen(line, "#")}})

\* u without its trailing "#".
DropHashes(u) == The({SubSeq(t, 1, LastOther(t, "#", 1, Len(t))) : t \in {u}})

\* The text of an ATX heading: what follows the opening "#", trimmed, without
\* a closing run of "#" that a space precedes.
HeadingText(line) ==
    The({The({IF d = <<>> THEN <<>>
              ELSE IF Len(d) < Len(t) /\ Last(d) = " " THEN TrimRight(d)
              ELSE t :
              d \in {DropHashes(t)}}) :
         t \in {Trim(SubSeq(line, RunLen(line, "#") + 1, Len(line)))}})

\* The cells of a pipe-table line: the line trimmed, without its leading and
\* trailing "|", split at "|"; each cell trimmed.
\* s without the character c at its head, when it has it there.
DropFirst(s, c) == The({IF t # <<>> /\ t[1] = c THEN Tail(t) ELSE t : t \in {s}})

\* s without the character c at its end, when it has it there.
DropLast(s, c) ==
    The({IF t # <<>> /\ Last(t) = c THEN SubSeq(t, 1, Len(t) - 1) ELSE t : t \in {s}})

Cells(line) ==
    The({AsSeq([i \in 1..Len(parts) |-> Trim(parts[i])]) :
         parts \in {SplitOn(DropLast(DropFirst(Trim(line), "|"), "|"), "|")}})

HasPipe(line) == FindFrom(line, <<"|">>, 1) # 0

\* A delimiter row: every cell is a run of "-", optionally with ":" at its ends.
IsDelimiterRow(line) ==
    /\ HasPipe(line)
    /\ \A cells \in {Cells(line)} :
          \A i \in 1..Len(cells) :
              \A b \in {DropLast(DropFirst(cells[i], ":"), ":")} :
                  b # <<>> /\ \A k \in 1..Len(b) : b[k] = "-"

\* Whether a table starts at lines[i]: a header line, then a delimiter row
\* with as many cells.
TableStarts(lines, i) ==
    /\ "table" \in SchemaNodes
    /\ i + 1 <= Len(lines)
    /\ HasPipe(lines[i])
    /\ IsDelimiterRow(lines[i + 1])
    /\ Len(Cells(lines[i])) = Len(Cells(lines[i + 1]))

HeadingStarts(lines, i) == "heading" \in SchemaNodes /\ HeadingLevel(lines[i]) # 0

\* A body row of a table: a non-blank line with a "|".
IsBodyRow(lines, i) == ~Blank(lines[i]) /\ HasPipe(lines[i])

\* A line that continues a paragraph: non-blank, and no other block starts there.
ContinuesParagraph(lines, i) ==
    ~Blank(lines[i]) /\ ~HeadingStarts(lines, i) /\ ~TableStarts(lines, i)

\* How many consecutive lines from lines[i] on are body rows of a table.
RECURSIVE BodyRows(_, _)
BodyRows(lines, i) ==
    The({IF j <= Len(lines) /\ IsBodyRow(lines, j) THEN 1 + BodyRows(lines, j + 1) ELSE 0 :
         j \in {i}})

\* How many consecutive lines from lines[i] on continue a paragraph.
RECURSIVE ParagraphLines(_, _)
ParagraphLines(lines, i) ==
    The({IF j <= Len(lines) /\ ContinuesParagraph(lines, j)
         THEN 1 + ParagraphLines(lines, j + 1) ELSE 0 :
         j \in {i}})

\* lines[from..to] joined with line endings.
RECURSIVE JoinLines(_, _, _)
JoinLines(lines, from, to) ==
    The({IF j > to THEN <<>>
         ELSE IF j = to THEN TrimRight(TrimLeft(lines[j]))
         ELSE TrimRight(TrimLeft(lines[j])) \o <<"\n">> \o JoinLines(lines, j + 1, to) :
         j \in {from}})

Paragraph(s) == Node("paragraph", <<>>, Inline(s, <<>>, <<>>, SchemaMarks))

\* One table row: a cell node of the given type per cell of the line, each
\* holding the cell's inline content in a paragraph.  A row has the cells its
\* line has: none is added to a short row, none dropped from a long one.
TableRow(line, cellType) ==
    The({Node("tableRow", <<>>,
              AsSeq([i \in 1..Len(cells) |->
                        Node(cellType, <<>>, <<Paragraph(cells[i])>>)])) :
         cells \in {Cells(line)}})

\* The line to go on from, and the block nodes made of the lines before it.
BlockState(i, acc) == [i |-> i, acc |-> acc]

\* One step through the lines: a blank line is passed over; a heading, a
\* table with its body rows or a paragraph with its continuation lines
\* becomes a block.
BlockStep(lines, st) ==
    IF Blank(lines[st.i]) THEN BlockState(st.i + 1, st.acc)
    ELSE IF HeadingStarts(lines, st.i) THEN
        BlockState(st.i + 1,
                   Append(st.acc,
                          Node("heading",
                               << <<"level", <<"num", HeadingLevel(lines[st.i])>>>> >>,
                               Inline(HeadingText(lines[st.i]), <<>>, <<>>, SchemaMarks))))
    ELSE IF TableStarts(lines, st.i) THEN
        The({BlockState(st.i + 2 + k,
                        Append(st.acc,
                               Node("table", <<>>,
                                    <<TableRow(lines[st.i], "tableHeader")>>
                                    \o [r \in 1..k |->
                                          TableRow(lines[st.i + 1 + r], "tableCell")]))) :
             k \in {BodyRows(lines, st.i + 2)}})
    ELSE
        The({BlockState(st.i + k,
                        Append(st.acc, Paragraph(JoinLines(lines, st.i, st.i + k - 1)))) :
             k \in {1 + ParagraphLines(lines, st.i + 1)}})

\* Up to n steps through the lines, stopping after the last line.  (The steps
\* are taken half by half, so that a long text does not make a deep
\* evaluation.)
RECURSIVE BlockSteps(_, _, _)
BlockSteps(lines, state, n) ==
    The({IF st.i > Len(lines) \/ m = 0 THEN st
         ELSE IF m = 1 THEN BlockStep(lines, st)
         ELSE BlockSteps(lines, BlockSteps(lines, st, m \div 2), m - m \div 2) :
         st \in {state}, m \in {n}})

\* The block nodes of lines[i..].  Every step takes at least one line, so
\* Len(lines) steps reach the end.
Blocks(lines, i) == BlockSteps(lines, BlockState(i, <<>>), Len(lines)).acc

\* The node and mark types a tree uses.
RECURSIVE TypesIn(_)
TypesIn(node) ==
    The({{n.type} \cup UNION {TypesIn(n.content[i]) : i \in 1..Len(n.content)} :
         n \in {node}})

RECURSIVE MarksIn(_)
MarksIn(node) ==
    The({{n.marks[i].type : i \in 1..Len(n.marks)}
         \cup UNION {MarksIn(n.content[i]) : i \in 1..Len(n.content)} :
         n \in {node}})

\* markdownTransformer.parse(markdown): the document node, or a throw when a
\* token of the markdown has no node or mark of the schema to become.
markdownTransformer_parse(markdown) ==
    The({The({IF TypesIn(doc) \subseteq SchemaNodes /\ MarksIn(doc) \subseteq SchemaMarks
              THEN [threw |-> FALSE, node |-> doc]
              ELSE [threw |-> TRUE, node |-> Node("doc", <<>>, <<>>)] :
              doc \in {Node("doc", <<>>, Blocks(lines, 1))}}) :
         lines \in {SplitOn(markdown, "\n")}})

(***************************************************************************)
(* JSON values: <<"str", chars>>, <<"num", n>>, <<"arr", values>> and      *)
(* <<"obj", members>>, members a sequence of <<key, value>> in insertion   *)
(* order.  A key is one identifier, held as a single element.              *)
(***************************************************************************)
JStr(s) == <<"str", s>>
JNum(n) == <<"num", n>>
JArr(vs) == <<"arr", vs>>
JObj(ms) == <<"obj", ms>>

HasField(obj, key) == \E i \in 1..Len(obj[2]) : obj[2][i][1] = key

Field(obj, key) == obj[2][CHOOSE i \in 1..Len(obj[2]) : obj[2][i][1] = key][2]

\* The elements of an array value; the characters of a string value.
Elems(arr) == arr[2]

EncodeMark(m) ==
    JObj(<< <<"type", JStr(<<m.type>>)>> >>
         \o (IF m.attrs = <<>> THEN <<>> ELSE << <<"attrs", JObj(m.attrs)>> >>))

\* One node as the JSON transformer writes it: its type, its attrs when it
\* has some, its text when it is a text leaf, its content (always, for a
\* paragraph; otherwise when it has children) and its marks when it has some.
RECURSIVE EncodeNode(_)
EncodeNode(node) ==
    The({JObj(<< <<"type", JStr(<<n.type>>)>> >>
              \o (IF n.attrs = <<>> THEN <<>> ELSE << <<"attrs", JObj(n.attrs)>> >>)
              \o (IF n.type = "text" THEN << <<"text", JStr(n.text)>> >> ELSE <<>>)
              \o (IF n.content # <<>> \/ n.type = "paragraph"
                  THEN << <<"content",
                            JArr(AsSeq([i \in 1..Len(n.content) |->
                                          EncodeNode(n.content[i])]))>> >>
                  ELSE <<>>)
              \o (IF n.marks = <<>> THEN <<>>
                  ELSE << <<"marks",
                            JArr(AsSeq([i \in 1..Len(n.marks) |->
                                          EncodeMark(n.marks[i])]))>> >>)) :
         n \in {node}})

\* jsonTransformer.encode(pmNode): the ADF document of a document node.
jsonTransformer_encode(pmNode) ==
    The({JObj(<< <<"version", JNum(1)>>,
                 <<"type", JStr(<<"doc">>)>>,
                 <<"content",
                   JArr(AsSeq([i \in 1..Len(content) |-> EncodeNode(content[i])]))>> >>) :
         content \in {pmNode.content}})

(***************************************************************************)
(* JSON.stringify and JSON.parse, character by character.                  *)
(***************************************************************************)
Digits == <<"0", "1", "2", "3", "4", "5", "6", "7", "8", "9">>

RECURSIVE NumChars(_)
NumChars(n) ==
    IF n < 10 THEN <<Digits[n + 1]>> ELSE NumChars(n \div 10) \o <<Digits[(n % 10) + 1]>>

IsDigit(c) == \E d \in 1..10 : Digits[d] = c

DigitValue(c) == (CHOOSE d \in 1..10 : Digits[d] = c) - 1

\* A string's characters with the quote, the backslash and the line ending
\* escaped.
EscapeChar(c) ==
    IF c = "\"" THEN <<"\\", "\"">>
    ELSE IF c = "\\" THEN <<"\\", "\\">>
    ELSE IF c = "\n" THEN <<"\\", "n">>
    ELSE <<c>>

Quote(s) ==
    The({<<"\"">> \o Flatten(AsSeq([i \in 1..Len(t) |-> EscapeChar(t[i])])) \o <<"\"">> :
         t \in {s}})

\* The texts ts[1], ts[2], ... with a "," between them.
JoinComma(ts) ==
    The({Flatten(AsSeq([i \in 1..Len(t) |-> IF i = 1 THEN t[i] ELSE <<",">> \o t[i]])) :
         t \in {ts}})

\* JSON.stringify(value).  (The texts of the elements are made first, each
\* with its index, and then put in order.)
RECURSIVE JSON_stringify(_)
JSON_stringify(value) ==
    CASE value[1] = "str" -> Quote(value[2])
      [] value[1] = "num" -> NumChars(value[2])
      [] value[1] = "arr" ->
           The({<<"[">> \o JoinComma(Listed(parts)) \o <<"]">> :
                parts \in {{<<e[1], JSON_stringify(e[2])>> : e \in Indexed(value[2])}}})
      [] value[1] = "obj" ->
           The({<<"{">> \o JoinComma(Listed(parts)) \o <<"}">> :
                parts \in {{<<m[1], Quote(<<m[2][1]>>) \o <<":">> \o JSON_stringify(m[2][2])>> :
                            m \in Indexed(value[2])}}})

\* How many backslashes stand immediately before t[j].
RECURSIVE BackslashesBefore(_, _)
BackslashesBefore(t, j) ==
    The({IF k > 1 /\ t[k - 1] = "\\" THEN 1 + BackslashesBefore(t, k - 1) ELSE 0 :
         k \in {j}})

\* Whether t[p] is a quote that no backslash escapes: it opens or closes a
\* string literal.
IsQuote(t, p) == t[p] = "\"" /\ BackslashesBefore(t, p) % 2 = 0

\* Whether t[p] is a backslash that escapes the character after it.
Escapes(t, p) == p >= 1 /\ t[p] = "\\" /\ BackslashesBefore(t, p) % 2 = 0

\* What the character t[p] of a string literal stands for: nothing ("DROPPED")
\* when it is an escaping backslash, the escaped character when such a
\* backslash precedes it, and itself otherwise.
Unescaped(t, p) ==
    The({IF Escapes(t, q) THEN "DROPPED"
         ELSE IF Escapes(t, q - 1) THEN (IF t[q] = "n" THEN "\n" ELSE t[q])
         ELSE t[q] :
         q \in {p}})

\* The characters that the body t[lo..hi] of a string literal stands for.
StringChars(t, lo, hi) ==
    SelectSeq([k \in 1..(hi - lo + 1) |-> Unescaped(t, lo + k - 1)],
              LAMBDA c : c # "DROPPED")

\* The number that the digits t[lo..hi] stand for.
RECURSIVE NumberOf(_, _, _)
NumberOf(t, lo, hi) ==
    IF lo = hi THEN DigitValue(t[hi])
    ELSE 10 * NumberOf(t, lo, hi - 1) + DigitValue(t[hi])

\* The marks of the text t that give it its structure: the quotes that open
\* or close a string literal, and, outside the string literals, the "[" and
\* "{", the "]" and "}", the "," and the ":".
Scan(t) ==
    The({[quotes |-> q,
          opens |-> {p \in 1..Len(t) :
                       t[p] \in {"[", "{"} /\ Cardinality({x \in q : x <= p}) % 2 = 0},
          closes |-> {p \in 1..Len(t) :
                        t[p] \in {"]", "}"} /\ Cardinality({x \in q : x <= p}) % 2 = 0},
          commas |-> {p \in 1..Len(t) :
                        t[p] = "," /\ Cardinality({x \in q : x <= p}) % 2 = 0},
          colons |-> {p \in 1..Len(t) :
                        t[p] = ":" /\ Cardinality({x \in q : x <= p}) % 2 = 0}] :
         q \in {{p \in 1..Len(t) : IsQuote(t, p)}}})

\* The number of arrays and objects open after the character at p.
Level(sc, p) ==
    Cardinality({x \in sc.opens : x <= p}) - Cardinality({x \in sc.closes : x <= p})

\* Where the array or object written in lo..hi is cut into its elements or
\* members: its opening bracket, the commas directly inside it, its closing
\* bracket.
Cuts(sc, lo, hi) ==
    SortedSeq({lo, hi} \cup {p \in sc.commas : lo < p /\ p < hi /\ Level(sc, p) = Level(sc, lo)})

\* The elements of the array, or the members of the object, written in
\* lo..hi: each one's index, first and last character.
Ranges(sc, lo, hi) ==
    IF hi = lo + 1 THEN {}
    ELSE The({{<<k, cuts[k] + 1, cuts[k + 1] - 1>> : k \in 1..(Len(cuts) - 1)} :
              cuts \in {Cuts(sc, lo, hi)}})

\* Where the key of the member written in lo..hi ends: the first ":" outside
\* a string literal.
Colon(sc, lo, hi) == Min({p \in sc.colons : lo <= p /\ p <= hi})

\* The JSON value written in t[lo..hi]; sc is Scan(t).  (The elements are
\* read first, each with its index, and then put in order.)
RECURSIVE ParseValue(_, _, _, _)
ParseValue(t, sc, lo, hi) ==
    CASE t[lo] = "\"" -> JStr(StringChars(t, lo + 1, hi - 1))
      [] t[lo] = "[" ->
           The({JArr(Listed(parts)) :
                parts \in {{<<r[1], ParseValue(t, sc, r[2], r[3])>> :
                            r \in Ranges(sc, lo, hi)}}})
      [] t[lo] = "{" ->
           The({JObj(Listed(parts)) :
                parts \in {{<<m[1], <<StringChars(t, m[2] + 1, m[3] - 2)[1],
                                      ParseValue(t, sc, m[3] + 1, m[4])>> >> :
                            m \in {<<r[1], r[2], Colon(sc, r[2], r[3]), r[3]>> :
                                   r \in Ranges(sc, lo, hi)}}}})
      [] OTHER -> JNum(NumberOf(t, lo, hi))

JSON_parse(text) ==
    The({The({ParseValue(t, sc, 1, Len(t)) : sc \in {Scan(t)}}) : t \in {text}})

(***************************************************************************)
(* md-to-adf.ts: the two exported functions.  A result is                  *)
(* [threw, value]; value is <<>> when the call threw.                      *)
(***************************************************************************)
\* markdownToAdf with the parsed blocks gathered in a module-level array that
\* no call empties: a document also holds the blocks of the document made
\* before it.
markdownToAdfAccumulating(markdown) ==
    The({IF pm.threw THEN [threw |-> TRUE, value |-> <<>>]
         ELSE [threw |-> FALSE,
               value |->
                 IF DOMAIN heap = {} THEN jsonTransformer_encode(pm.node)
                 ELSE JObj(<< <<"version", JNum(1)>>,
                              <<"type", JStr(<<"doc">>)>>,
                              <<"content",
                                JArr(Elems(Field(heap[Max(DOMAIN heap)], "content"))
                                     \o Elems(Field(jsonTransformer_encode(pm.node),
                                                    "content")))>> >>)] :
         pm \in {markdownTransformer_parse(markdown)}})

markdownToAdf(markdown) ==
    The({IF pm.threw THEN [threw |-> TRUE, value |-> <<>>]
         ELSE [threw |-> FALSE, value |-> jsonTransformer_encode(pm.node)] :
         pm \in {markdownTransformer_parse(markdown)}})

\* markdownToAdfString serialising the content array instead of the document.
markdownToAdfStringOfContent(markdown) ==
    The({IF r.threw THEN r
         ELSE [threw |-> FALSE, value |-> JSON_stringify(Field(r.value, "content"))] :
         r \in {markdownToAdf(markdown)}})

markdownToAdfString(markdown) ==
    The({IF r.threw THEN r
         ELSE [threw |-> FALSE, value |-> JSON_stringify(r.value)] :
         r \in {markdownToAdf(markdown)}})

(***************************************************************************)
(* The markdown texts the conversions are run on.                          *)
(***************************************************************************)
\* The most "#" a heading line is tried with (one more than a heading has).
MaxHashes == 7

\* The most columns and body rows a table is tried with.
MaxCols == 2

MaxRows == 2

Hashes(n) == [i \in 1..n |-> "#"]

HeadingTexts ==
    << <<"H">>,
       <<"H", "e", "a", "d", "i", "n", "g", " ", "2">>,
       <<"a", " ", "*", "*", "b", "*", "*">>,
       <<"T", " ", "#">> >>

\* The text of the claim about marks.
MarksText ==
    <<"*", "*", "b", "o", "l", "d", "*", "*", " ", "a", "n", "d", " ", "*", "i", "t",
    "a", "l", "i", "c", "*", " ", "a", "n", "d", " ", "~", "~", "g", "o", "n", "e",
    "~", "~", " ", "a", "n", "d", " ", Backtick, "c", "o", "d", "e", Backtick>>

InlineTexts ==
    << MarksText,
       <<"H", "e", "l", "l", "o", ",", " ", "w", "o", "r", "l", "d", "!">>,
       \* an unclosed strong marker
       <<"*", "*", "b", "o", "l", "d">>,
       \* stars that open nothing
       <<"a", " ", "*", " ", "b", " ", "*", "c">>,
       \* an unclosed strike marker and an unclosed code span
       <<"~", "~", "x", " ", "a", "n", "d", " ", Backtick, "y">>,
       <<"[", "t", "e", "x", "t", "]", "(", "h", "t", "t", "p", "s", ":", "/", "/",
       "a", ".", "b", "/", "c", ")">>,
       \* an unclosed link destination
       <<"[", "t", "e", "x", "t", "]", "(", "u">>,
       \* emphasis inside strong
       <<"*", "*", "a", " ", "*", "b", "*", " ", "c", "*", "*">>,
       \* a soft line break
       <<"l", "i", "n", "e", "1", "\n", "l", "i", "n", "e", "2">>,
       \* a quote and a backslash
       <<"s", "a", "y", " ", "\"", "h", "i", "\"", " ", "\\", " ", "b", "y", "e">>,
       \* a link inside strong
       <<"*", "*", "[", "t", "]", "(", "u", ")", "*", "*">>,
       \* two paragraphs
       <<"a", "\n", "\n", "b">> >>

DocTexts ==
    << <<"#", " ", "T", "\n", "\n", "p", "a", "r", "a", " ", "*", "*", "b", "*", "*",
       "\n", "\n", "|", " ", "a", " ", "|", " ", "b", " ", "|", "\n", "|", " ", "-",
       "-", "-", " ", "|", " ", "-", "-", "-", " ", "|", "\n", "|", " ", "1", " ", "|",
       " ", "2", " ", "|">>,
       <<"t", "e", "x", "t", "\n", "#", "#", " ", "H", "\n", "m", "o", "r", "e">> >>

\* One line of a pipe table: "| c1 | c2 |".
TableLine(cells) ==
    <<"|">> \o Flatten([i \in 1..Len(cells) |-> <<" ">> \o cells[i] \o <<" ", "|">>])

\* A pipe table of c columns and k body rows, each body row with c + w cells
\* (w < 0: short rows, w > 0: long rows).
TableText(c, k, w) ==
    LET header == TableLine([i \in 1..c |-> <<"h", Digits[i + 1]>>])
        delim == TableLine([i \in 1..c |-> <<"-", "-", "-">>])
        row(r) == TableLine([i \in 1..(c + w) |-> <<"c", Digits[r + 1], Digits[i + 1]>>])
    IN  header \o <<"\n">> \o delim
        \o Flatten([r \in 1..k |-> <<"\n">> \o row(r)])

Sample(kind, n, k, w, text) ==
    [shape |-> [kind |-> kind, n |-> n, k |-> k, w |-> w], text |-> text]

\* The texts, each with how it was made:
\*   heading  n "#", a space and HeadingTexts[k]
\*   nospace  n "#" and HeadingTexts[k], with no space between
\*   inline   InlineTexts[k]
\*   table    TableText(n, k, w)
\*   doc      DocTexts[k]
\*   empty    the empty string
Samples ==
    {Sample("heading", n, k, 0, Hashes(n) \o <<" ">> \o HeadingTexts[k]) :
        n \in 1..MaxHashes, k \in 1..Len(HeadingTexts)}
    \cup {Sample("nospace", n, 1, 0, Hashes(n) \o HeadingTexts[1]) : n \in 1..MaxHashes}
    \cup {Sample("inline", 0, k, 0, InlineTexts[k]) : k \in 1..Len(InlineTexts)}
    \cup {Sample("table", t[1], t[2], t[3], TableText(t[1], t[2], t[3])) :
            t \in {u \in (1..MaxCols) \X (0..MaxRows) \X {-1, 0, 1} : u[1] + u[3] >= 1}}
    \cup {Sample("doc", 0, k, 0, DocTexts[k]) : k \in 1..Len(DocTexts)}
    \cup {Sample("empty", 0, 0, 0, <<>>)}

NotCalled == [called |-> FALSE, threw |-> FALSE, value |-> <<>>]

Returned(r) == [called |-> TRUE, threw |-> r.threw, value |-> r.value]

(***************************************************************************)
(* One conversion: a text, and the two exported functions applied to it.   *)
(***************************************************************************)
InitPure ==
    /\ \E sm \in Samples : shape = sm.shape /\ input = sm.text
    /\ adf = NotCalled
    /\ adfString = NotCalled
    /\ heap = <<>>
    /\ held = <<>>
    /\ now = 0 /\ fs = <<>> /\ pc = <<>> /\ tmpPath = <<>> /\ outcome = <<>>
    /\ IdleRest /\ IdleMore

CallMarkdownToAdf ==
    /\ ~adf.called
    /\ adf' = Returned(markdownToAdf(input))
    /\ UNCHANGED <<shape, input, adfString, convVars, tempVars, restVars, moreVars>>

CallMarkdownToAdfString ==
    /\ ~adfString.called
    /\ adfString' = Returned(markdownToAdfString(input))
    /\ UNCHANGED <<shape, input, adf, convVars, tempVars, restVars, moreVars>>

NextPure == CallMarkdownToAdf \/ CallMarkdownToAdfString

SpecPure == InitPure /\ [][NextPure]_vars

(***************************************************************************)
(* Reading an ADF document.                                                *)
(***************************************************************************)
TypeOf(node) == Field(node, "type")[2][1]

ContentOf(node) == IF HasField(node, "content") THEN Elems(Field(node, "content")) ELSE <<>>

MarkTypes(leaf) ==
    IF HasField(leaf, "marks")
    THEN [i \in 1..Len(Elems(Field(leaf, "marks"))) |-> TypeOf(Elems(Field(leaf, "marks"))[i])]
    ELSE <<>>

IsAdfDocument(v) ==
    /\ v # <<>>
    /\ v[1] = "obj"
    /\ HasField(v, "type") /\ Field(v, "type") = JStr(<<"doc">>)
    /\ HasField(v, "version") /\ Field(v, "version") = JNum(1)
    /\ HasField(v, "content") /\ Field(v, "content")[1] = "arr"

AllOfType(nodes, type) == \A i \in 1..Len(nodes) : TypeOf(nodes[i]) = type

C5_StringIsJsonOfDocument ==
    adf.called /\ adfString.called =>
        /\ adfString.threw = adf.threw
        /\ ~adf.threw => JSON_parse(adfString.value) = adf.value

\* C5 witness: both functions were applied to a text with a quote and a
\* backslash, which the serialisation has to escape.
C5_Witness ==
    /\ adf.called /\ adfString.called
    /\ ~adf.threw /\ ~adfString.threw
    /\ input = InlineTexts[10]
    /\ \E i \in 1..Len(adfString.value) : adfString.value[i] = "\\"

\* C6: a line of n "#" (n in 1..6), a space and heading text converts to
\* exactly one block, a heading whose level attribute is n.
C6_HeadingLevel ==
    adf.called /\ shape.kind = "heading" /\ shape.n \in 1..6 =>
        /\ ~adf.threw
        /\ Len(ContentOf(adf.value)) = 1
        /\ TypeOf(ContentOf(adf.value)[1]) = "heading"
        /\ HasField(ContentOf(adf.value)[1], "attrs")
        /\ Field(Field(ContentOf(adf.value)[1], "attrs"), "level") = JNum(shape.n)

\* C6 witness: a line of six "#", a space and text was converted.
C6_Witness == adf.called /\ shape.kind = "heading" /\ shape.n = 6

\* C7: a pipe table with k body rows converts to one table of k + 1 rows,
\* the first made only of header cells, every later one only of data cells;
\* a 2-column table with 1 body row has 2 header cells and then 2 data cells.
C7_TableRows ==
    adf.called /\ shape.kind = "table" =>
        /\ ~adf.threw
        /\ Len(ContentOf(adf.value)) = 1
        /\ TypeOf(ContentOf(adf.value)[1]) = "table"
        /\ LET rows == ContentOf(ContentOf(adf.value)[1]) IN
           /\ Len(rows) = shape.k + 1
           /\ AllOfType(rows, "tableRow")
           /\ ContentOf(rows[1]) # <<>>
           /\ AllOfType(ContentOf(rows[1]), "tableHeader")
           /\ \A r \in 2..Len(rows) :
                 ContentOf(rows[r]) # <<>> /\ AllOfType(ContentOf(rows[r]), "tableCell")
           /\ shape.n = 2 /\ shape.k = 1 /\ shape.w = 0 =>
                 Len(ContentOf(rows[1])) = 2 /\ Len(ContentOf(rows[2])) = 2

\* C7 witness: the 2-column table with 1 body row was converted.
C7_Witness ==
    adf.called /\ ~adf.threw /\ shape.kind = "table"
    /\ shape.n = 2 /\ shape.k = 1 /\ shape.w = 0

\* The text leaves of the one paragraph of a document.
Leaves(v) == ContentOf(ContentOf(v)[1])

\* C9 as stated: the marks text converts to four text leaves, each with
\* exactly one mark: strong, em, strike, code, from left to right.
C9_FourLeaves ==
    adf.called /\ input = MarksText =>
        /\ ~adf.threw
        /\ Len(Leaves(adf.value)) = 4
        /\ [i \in 1..4 |-> MarkTypes(Leaves(adf.value)[i])]
              = << <<"strong">>, <<"em">>, <<"strike">>, <<"code">> >>

\* C9, amended: the marks text converts to seven text leaves; the first,
\* third, fifth and seventh carry exactly one mark each (strong, em, strike,
\* code, in that order); the three " and " between them carry none.
C9_FourMarkedLeaves ==
    adf.called /\ input = MarksText =>
        /\ ~adf.threw
        /\ Len(ContentOf(adf.value)) = 1
        /\ AllOfType(Leaves(adf.value), "text")
        /\ [i \in 1..Len(Leaves(adf.value)) |-> MarkTypes(Leaves(adf.value)[i])]
              = << <<"strong">>, <<>>, <<"em">>, <<>>, <<"strike">>, <<>>, <<"code">> >>
        /\ \A i \in {2, 4, 6} :
              Field(Leaves(adf.value)[i], "text") = JStr(<<" ", "a", "n", "d", " ">>)

\* C9 witness: the marks text was converted.
C9_Witness == adf.called /\ ~adf.threw /\ input = MarksText

(***************************************************************************)
(* Several callers of markdownToAdf.  A call is one step: the function is  *)
(* synchronous.  Each call returns a new object; a caller keeps the object *)
(* of its latest call, and an object no caller keeps is gone.              *)
(***************************************************************************)
NumCallers == 2

Callers == 1..NumCallers

ObjectIds == 1..(NumCallers + 1)

SessionTexts ==
    {<<>>, InlineTexts[2], InlineTexts[6], MarksText,
     Hashes(2) \o <<" ">> \o HeadingTexts[1], TableText(2, 1, 0)}

NoCall == [called |-> FALSE, input |-> <<>>, threw |-> FALSE, ref |-> 0]

InitConv ==
    /\ heap = <<>>
    /\ held = [c \in Callers |-> NoCall]
    /\ shape = Sample("empty", 0, 0, 0, <<>>).shape /\ input = <<>>
    /\ adf = NotCalled /\ adfString = NotCalled
    /\ now = 0 /\ fs = <<>> /\ pc = <<>> /\ tmpPath = <<>> /\ outcome = <<>>
    /\ IdleRest /\ IdleMore

\* The objects that callers other than c keep.
KeptByOthers(c) == {held[d].ref : d \in Callers \ {c}} \ {0}

\* A call that writes its document into one module-level object and returns
\* that object every time.
CallerConvertsShared(c, m) ==
    \E r \in {markdownToAdf(m)} :
        IF r.threw
        THEN /\ held' = [held EXCEPT ![c] = [called |-> TRUE, input |-> m, threw |-> TRUE, ref |-> 0]]
             /\ heap' = [o \in KeptByOthers(c) |-> heap[o]]
        ELSE /\ held' = [held EXCEPT ![c] = [called |-> TRUE, input |-> m, threw |-> FALSE, ref |-> 1]]
             /\ heap' = [o \in KeptByOthers(c) \cup {1} |-> IF o = 1 THEN r.value ELSE heap[o]]

\* Caller c calls markdownToAdf(m) and keeps what it returns.
CallerConverts(c, m) ==
    \E r \in {markdownToAdf(m)} :
        IF r.threw
        THEN /\ held' = [held EXCEPT ![c] = [called |-> TRUE, input |-> m, threw |-> TRUE, ref |-> 0]]
             /\ heap' = [o \in KeptByOthers(c) |-> heap[o]]
        ELSE LET new == Min(ObjectIds \ DOMAIN heap) IN
             /\ held' = [held EXCEPT ![c] = [called |-> TRUE, input |-> m, threw |-> FALSE, ref |-> new]]
             /\ heap' = [o \in KeptByOthers(c) \cup {new} |-> IF o = new THEN r.value ELSE heap[o]]

NextConv ==
    \E c \in Callers, m \in SessionTexts :
        CallerConverts(c, m) /\ UNCHANGED <<pureVars, tempVars, restVars, moreVars>>

SpecConv == InitConv /\ [][NextConv]_vars

HoldsDocument(c) == held[c].called /\ ~held[c].threw

NumCalls == 2

MaxClock == 1

Calls == 1..NumCalls

NoOutcome == [result |-> "none", read |-> "none"]

InitTemp ==
    /\ now = 0
    /\ fs = <<>>
    /\ pc = [c \in Calls |-> "idle"]
    /\ tmpPath = [c \in Calls |-> 0]
    /\ outcome = [c \in Calls |-> NoOutcome]
    /\ heap = <<>> /\ held = <<>>
    /\ IdleRest /\ IdleMore
    /\ shape = Sample("empty", 0, 0, 0, <<>>).shape /\ input = <<>>
    /\ adf = NotCalled /\ adfString = NotCalled

\* Time passes.
Tick ==
    /\ now < MaxClock
    /\ now' = now + 1
    /\ UNCHANGED <<fs, pc, tmpPath, outcome>>

\* const tmpPath = `/tmp/acli-${Date.now()}.json`; Bun.write(...) is started.
WithTempJson(c) ==
    /\ pc[c] = "idle"
    /\ tmpPath' = [tmpPath EXCEPT ![c] = now]
    /\ pc' = [pc EXCEPT ![c] = "writing"]
    /\ UNCHANGED <<now, fs, outcome>>

\* await Bun.write(tmpPath, JSON.stringify(data)) is fulfilled: the file holds
\* the data of this call, whatever it held before.
BunWrite(c) ==
    /\ pc[c] = "writing"
    /\ fs' = [q \in DOMAIN fs \cup {tmpPath[c]} |-> IF q = tmpPath[c] THEN c ELSE fs[q]]
    /\ pc' = [pc EXCEPT ![c] = "fn"]
    /\ UNCHANGED <<now, tmpPath, outcome>>

\* await Bun.write(...) is rejected: the call is rejected before its try
\* block, and fn is not called.
BunWriteFails(c) ==
    /\ pc[c] = "writing"
    /\ outcome' = [outcome EXCEPT ![c].result = "writeFailed"]
    /\ pc' = [pc EXCEPT ![c] = "done"]
    /\ UNCHANGED <<now, fs, tmpPath>>

\* What a reader of the file at call c's path finds.
FileRead(c) ==
    IF tmpPath[c] \notin DOMAIN fs THEN "missing"
    ELSE IF fs[tmpPath[c]] = c THEN "own" ELSE "other"

\* The callback uses the path it was given: acli --from-json reads the file.
FnReads(c) ==
    /\ pc[c] = "fn"
    /\ outcome[c].read = "none"
    /\ outcome' = [outcome EXCEPT ![c].read = FileRead(c)]
    /\ UNCHANGED <<now, fs, pc, tmpPath>>

\* return await fn(tmpPath): the callback's promise is fulfilled.
FnReturns(c) ==
    /\ pc[c] = "fn"
    /\ outcome' = [outcome EXCEPT ![c].result = "returned"]
    /\ pc' = [pc EXCEPT ![c] = "finally"]
    /\ UNCHANGED <<now, fs, tmpPath>>

\* return await fn(tmpPath): the callback throws or its promise is rejected.
FnThrows(c) ==
    /\ pc[c] = "fn"
    /\ outcome' = [outcome EXCEPT ![c].result = "threw"]
    /\ pc' = [pc EXCEPT ![c] = "finally"]
    /\ UNCHANGED <<now, fs, tmpPath>>

\* A cleanup written after the await instead of in a finally block: a throw
\* of the callback skips it.
CleanupAfterReturn(c) ==
    /\ pc[c] = "finally"
    /\ fs' = IF outcome[c].result = "threw" THEN fs
             ELSE [q \in DOMAIN fs \ {tmpPath[c]} |-> fs[q]]
    /\ pc' = [pc EXCEPT ![c] = "done"]
    /\ UNCHANGED <<now, tmpPath, outcome>>

\* finally { await Bun.$`rm -f ${tmpPath}`.quiet(); }
Finally(c) ==
    /\ pc[c] = "finally"
    /\ fs' = [q \in DOMAIN fs \ {tmpPath[c]} |-> fs[q]]
    /\ pc' = [pc EXCEPT ![c] = "done"]
    /\ UNCHANGED <<now, tmpPath, outcome>>

NextTemp ==
    /\ UNCHANGED <<pureVars, convVars, restVars, moreVars>>
    /\ \/ Tick
       \/ \E c \in Calls : WithTempJson(c)
       \/ \E c \in Calls : BunWrite(c)
       \/ \E c \in Calls : BunWriteFails(c)
       \/ \E c \in Calls : FnReads(c)
       \/ \E c \in Calls : FnReturns(c)
       \/ \E c \in Calls : FnThrows(c)
       \/ \E c \in Calls : Finally(c)

SpecTemp == InitTemp /\ [][NextTemp]_vars

\* The callback of call c has finished and so has the call.
Settled(c) == pc[c] = "done" /\ outcome[c].result \in {"returned", "threw"}

\* C10: once the callback of a withTempJson call has finished, by returning
\* or by throwing, and the call has settled, the file the call wrote is gone:
\* no file at its path holds its data.
C10_TempFileRemoved ==
    \A c \in Calls :
        Settled(c) => ~(tmpPath[c] \in DOMAIN fs /\ fs[tmpPath[c]] = c)

\* C10 witness: one call whose callback read the file and threw, another
\* whose callback read the file and returned, both settled, no file left.
C10_Witness ==
    /\ Settled(1) /\ outcome[1] = [result |-> "threw", read |-> "own"]
    /\ Settled(2) /\ outcome[2] = [result |-> "returned", read |-> "own"]
    /\ DOMAIN fs = {}

(***************************************************************************)
(* chrome/base.ts and chrome/convenience.ts: withBrowser.                  *)
(*                                                                         *)
(* browser is [runtime, chrome, mcp, epoch, pc, keepOpen, outcome].  One   *)
(* caller calls withBrowser again and again, and uses the chrome functions *)
(* inside the callback and between the calls.  epoch counts the calls      *)
(* started; a runtime or a process is known by the epoch it was made in.   *)
(* runtime is 0 for null; chrome and mcp are the epochs of the live        *)
(* browser and MCP server processes.                                       *)
(***************************************************************************)
\* The most calls of withBrowser that are followed.
MaxBrowserCalls == 3

InitBrowser ==
    /\ browser = [runtime |-> 0, chrome |-> {}, mcp |-> {}, epoch |-> 0,
                  pc |-> "idle", keepOpen |-> FALSE, outcome |-> "none"]
    /\ executor = <<>> /\ gh = <<>> /\ workitem = <<>> /\ script = <<>> /\ waiter = <<>>
    /\ shape = Sample("empty", 0, 0, 0, <<>>).shape /\ input = <<>>
    /\ adf = NotCalled /\ adfString = NotCalled
    /\ heap = <<>> /\ held = <<>>
    /\ now = 0 /\ fs = <<>> /\ pc = <<>> /\ tmpPath = <<>> /\ outcome = <<>>
    /\ IdleMore

\* closeChrome(): the runtime, when there is one, is closed and forgotten.
\* An error of the close is ignored: closed tells whether the close went
\* through, which ends the MCP server process of the runtime.
closeChrome(b, closed) ==
    [b EXCEPT !.runtime = 0,
              !.mcp = IF closed THEN @ \ {b.runtime} ELSE @]

\* ensureCleanState(): closeChrome(), then pkill of every browser and of
\* every MCP server process.
ensureCleanState(b, closed) == [closeChrome(b, closed) EXCEPT !.chrome = {}, !.mcp = {}]

\* quitBrowser() is ensureCleanState().
quitBrowser(b, closed) == ensureCleanState(b, closed)

\* The state in which withBrowser invokes fn, had it no ensureCleanState()
\* before the try.
WithBrowserStartsAsIs(b, keepOpen, closed) ==
    [b EXCEPT !.epoch = @ + 1, !.pc = "fn", !.keepOpen = keepOpen, !.outcome = "none"]

\* withBrowser(fn, {keepOpen}) up to the invocation of fn: ensureCleanState().
WithBrowserStarts(b, keepOpen, closed) ==
    [ensureCleanState(b, closed) EXCEPT !.epoch = @ + 1, !.pc = "fn", !.keepOpen = keepOpen,
                                !.outcome = "none"]

\* The state after the callback, were the cleanup written after the await
\* and not in a finally block: a throw of fn skips it.
WithBrowserCleansAfterReturn(b, closed) ==
    [(IF b.keepOpen \/ b.outcome = "threw" THEN b ELSE quitBrowser(b, closed))
        EXCEPT !.pc = "done"]

\* finally { if (!keepOpen) await quitBrowser(); }
WithBrowserFinally(b, closed) ==
    [(IF b.keepOpen THEN b ELSE quitBrowser(b, closed)) EXCEPT !.pc = "done"]

\* The caller calls withBrowser.
CallWithBrowser ==
    /\ browser.pc = "idle"
    /\ browser.epoch < MaxBrowserCalls
    /\ \E keepOpen, closed \in BOOLEAN :
          browser' = WithBrowserStarts(browser, keepOpen, closed)

\* chrome.close(), in the callback or between two calls of withBrowser.
ChromeClose ==
    /\ browser.pc \in {"idle", "fn"}
    /\ browser.runtime # 0
    /\ \E closed \in BOOLEAN : browser' = closeChrome(browser, closed)

\* chromeExec(...), in the callback or between two calls of withBrowser:
\* without a runtime one is created, which starts an MCP server process and
\* with it a browser.
ChromeExec ==
    /\ browser.pc \in {"idle", "fn"}
    /\ browser.runtime = 0
    /\ browser' = [browser EXCEPT !.runtime = browser.epoch,
                                  !.mcp = @ \cup {browser.epoch},
                                  !.chrome = @ \cup {browser.epoch}]

\* The callback fn returns, or throws.
BrowserFnEnds ==
    /\ browser.pc = "fn"
    /\ \E how \in {"returned", "threw"} :
          browser' = [browser EXCEPT !.pc = "finally", !.outcome = how]

BrowserFinally ==
    /\ browser.pc = "finally"
    /\ \E closed \in BOOLEAN : browser' = WithBrowserFinally(browser, closed)

\* withBrowser has returned or thrown; the caller goes on.
BrowserCallOver ==
    /\ browser.pc = "done"
    /\ browser' = [browser EXCEPT !.pc = "idle"]

NextBrowser ==
    /\ UNCHANGED <<pureVars, convVars, tempVars, moreVars, executor, gh, workitem, script, waiter>>
    /\ \/ CallWithBrowser
       \/ ChromeExec
       \/ ChromeClose
       \/ BrowserFnEnds
       \/ BrowserFinally
       \/ BrowserCallOver

SpecBrowser == InitBrowser /\ [][NextBrowser]_vars

\* C11: when a call of withBrowser without keepOpen is over, whether fn
\* returned or threw, there is no runtime (the MCP connection is closed) and
\* no browser or MCP server process is left.
C11_BrowserCleanedUp ==
    (browser.pc = "done" /\ ~browser.keepOpen)
        => (browser.runtime = 0 /\ browser.chrome = {} /\ browser.mcp = {})

\* C11 witness: the third call is over, its fn threw, and nothing is left,
\* though the call before it had kept its browser open.
C11_Witness ==
    /\ browser.pc = "done" /\ ~browser.keepOpen /\ browser.outcome = "threw"
    /\ browser.epoch = 3
    /\ browser.runtime = 0 /\ browser.chrome = {} /\ browser.mcp = {}

\* C20: while fn runs, the runtime, the browser and the MCP server process
\* it can meet were all made after this call of withBrowser began.
C20_StartsFresh ==
    browser.pc = "fn"
        => /\ browser.runtime \in {0, browser.epoch}
           /\ browser.chrome \subseteq {browser.epoch}
           /\ browser.mcp \subseteq {browser.epoch}

\* C20 witness: fn of the second call runs on a runtime and a browser of its
\* own (the first call had kept its browser open).
C20_Witness ==
    /\ browser.pc = "fn" /\ browser.epoch = 2
    /\ browser.runtime = 2 /\ browser.chrome = {2} /\ browser.mcp = {2}

(***************************************************************************)
(* acli/base.ts, gh/workflow.ts and peekaboo/base.ts: the base executors.  *)
(*                                                                         *)
(* executor is [pc, tool, run, result].  A run is what Bun.$ did with the  *)
(* command: [kind, stdout, stderr, message], where kind "ok" is exit code  *)
(* 0, "ShellError" the Error that Bun.$ throws on another exit code (it    *)
(* carries stdout, stderr and a message) and "thrown" a thrown value that  *)
(* is no Error.  A text is a sequence of pieces, <<>> the empty text.      *)
(* A result is [threw, success, data, error]; a field the object literal   *)
(* does not have is Missing.                                               *)
(***************************************************************************)
JUndefined == <<"undefined", <<>> >>
JNull == <<"null", <<>> >>
\* What stands for the SyntaxError of JSON.parse.
NotJSON == <<"invalid", <<>> >>
\* What stands for a field that an object literal does not have.
Missing == <<"missing", <<>> >>

\* The trimmed outputs that a command is run with.
CliTexts ==
    { <<>>,
      <<"Listing 3 windows">>,
      <<"null">>,
      <<"{\"data\":7}">>,
      <<"{\"error\":\"denied\"}">>,
      <<"{\"error\":{\"message\":\"denied\",\"code\":7}}">>,
      <<"{\"error\":{\"code\":7}}">>,
      <<"{\"error\":{\"message\":404}}">>,
      <<"{\"error\":[]}">> }

\* JSON.parse(text) for the texts of CliTexts.
CliParse(text) ==
    CASE text = <<"null">> -> JNull
      [] text = <<"{\"data\":7}">> -> JObj(<< <<"data", JNum(7)>> >>)
      [] text = <<"{\"error\":\"denied\"}">> -> JObj(<< <<"error", JStr(<<"denied">>)>> >>)
      [] text = <<"{\"error\":{\"message\":\"denied\",\"code\":7}}">> ->
           JObj(<< <<"error", JObj(<< <<"message", JStr(<<"denied">>)>>,
                                      <<"code", JNum(7)>> >>)>> >>)
      [] text = <<"{\"error\":{\"code\":7}}">> ->
           JObj(<< <<"error", JObj(<< <<"code", JNum(7)>> >>)>> >>)
      [] text = <<"{\"error\":{\"message\":404}}">> ->
           JObj(<< <<"error", JObj(<< <<"message", JNum(404)>> >>)>> >>)
      [] text = <<"{\"error\":[]}">> -> JObj(<< <<"error", JArr(<<>>)>> >>)
      [] OTHER -> NotJSON

\* value.key: undefined unless value is an object that has the key.  (The
\* read throws on null and undefined: see CanRead.)
Prop(value, key) ==
    IF value[1] = "obj" /\ HasField(value, key) THEN Field(value, key) ELSE JUndefined

CanRead(value) == value[1] \notin {"null", "undefined"}

\* Whether a value counts as true in a condition.
Truthy(value) ==
    CASE value[1] = "str" -> value[2] # <<>>
      [] value[1] = "num" -> value[2] # 0
      [] value[1] \in {"arr", "obj"} -> TRUE
      [] OTHER -> FALSE

\* String(value).
RECURSIVE String(_)
String(value) ==
    CASE value[1] = "str" -> value[2]
      [] value[1] = "num" -> NumChars(value[2])
      [] value[1] = "arr" ->
           JoinComma([i \in 1..Len(value[2]) |->
                        IF CanRead(value[2][i]) THEN String(value[2][i]) ELSE <<>>])
      [] value[1] = "obj" -> <<"[object Object]">>
      [] OTHER -> <<value[1]>>

\* What Bun.$`...`.quiet() can do with a command.
CliRuns ==
    [kind : {"ok"}, stdout : CliTexts, stderr : {<<>>}, message : {<<>>}]
    \cup [kind : {"ShellError"}, stdout : CliTexts, stderr : CliTexts,
          message : {<<"Failed with exit code 1">>}]
    \cup [kind : {"thrown"}, stdout : {<<>>}, stderr : {<<>>}, message : {<<>>}]

Success(data) == [threw |-> FALSE, success |-> TRUE, data |-> data, error |-> Missing]
Failure(error) == [threw |-> FALSE, success |-> FALSE, data |-> Missing, error |-> error]

\* The try block of the executors: the output parsed, or as it is when it is
\* not JSON (or when JSON was not asked for).
ExecTry(stdout, useJson) ==
    IF stdout = <<>> THEN Success(Missing)
    ELSE IF useJson /\ CliParse(stdout)[1] # "invalid" THEN Success(CliParse(stdout))
    ELSE Success(JStr(stdout))

\* error instanceof Error ? error.message : "Unknown error"
ErrorMessage(run) ==
    IF run.kind = "ShellError" THEN JStr(run.message) ELSE JStr(<<"Unknown error">>)

\* acli exec(args).
AcliExec(run) ==
    IF run.kind = "ok" THEN ExecTry(run.stdout, TRUE) ELSE Failure(ErrorMessage(run))

\* ghExec(args).
ghExec(run) ==
    IF run.kind = "ok" THEN ExecTry(run.stdout, TRUE) ELSE Failure(ErrorMessage(run))

\* The catch block of peekaboo exec for an error that has a stderr: the
\* error that the output names, the output itself when it is not JSON (or
\* when reading parsed.error throws), and else none (a Missing error).
PeekabooOutputError(output) ==
    The({IF parsed[1] = "invalid" \/ ~CanRead(parsed) THEN Failure(JStr(output))
         ELSE IF CanRead(Prop(parsed, "error"))
                 /\ Truthy(Prop(Prop(parsed, "error"), "message"))
              THEN Failure(Prop(Prop(parsed, "error"), "message"))
         ELSE IF Truthy(Prop(parsed, "error"))
              THEN Failure(JStr(String(Prop(parsed, "error"))))
         ELSE Failure(Missing) :
         parsed \in {CliParse(output)}})

\* peekaboo exec(args, options).
PeekabooExec(run, useJson) ==
    IF run.kind = "ok" THEN ExecTry(run.stdout, useJson)
    ELSE The({IF run.kind = "ShellError" /\ output # <<>>
                 /\ PeekabooOutputError(output).error[1] # "missing"
              THEN PeekabooOutputError(output)
              ELSE Failure(ErrorMessage(run)) :
              output \in {IF run.stderr # <<>> THEN run.stderr ELSE run.stdout}})

InitExec ==
    /\ executor = [pc |-> "idle", tool |-> "none", run |-> <<>>, result |-> <<>>]
    /\ browser = <<>> /\ gh = <<>> /\ workitem = <<>> /\ script = <<>> /\ waiter = <<>>
    /\ shape = Sample("empty", 0, 0, 0, <<>>).shape /\ input = <<>>
    /\ adf = NotCalled /\ adfString = NotCalled
    /\ heap = <<>> /\ held = <<>>
    /\ now = 0 /\ fs = <<>> /\ pc = <<>> /\ tmpPath = <<>> /\ outcome = <<>>
    /\ IdleMore

CallAcliExec ==
    /\ executor.pc = "idle"
    /\ \E run \in CliRuns :
          executor' = [pc |-> "done", tool |-> "acli", run |-> run, result |-> AcliExec(run)]

CallGhExec ==
    /\ executor.pc = "idle"
    /\ \E run \in CliRuns :
          executor' = [pc |-> "done", tool |-> "gh", run |-> run, result |-> ghExec(run)]

CallPeekabooExec ==
    /\ executor.pc = "idle"
    /\ \E run \in CliRuns, useJson \in BOOLEAN :
          executor' = [pc |-> "done", tool |-> "peekaboo", run |-> run,
                       result |-> PeekabooExec(run, useJson)]

\* The caller has the result and goes on.
ExecutorReturns ==
    /\ executor.pc = "done"
    /\ executor' = [pc |-> "idle", tool |-> "none", run |-> <<>>, result |-> <<>>]

NextExec ==
    /\ UNCHANGED <<pureVars, convVars, tempVars, moreVars, browser, gh, workitem, script, waiter>>
    /\ \/ CallAcliExec
       \/ CallGhExec
       \/ CallPeekabooExec
       \/ ExecutorReturns

SpecExec == InitExec /\ [][NextExec]_vars

\* Whether a field of a result holds a string that is not empty.
NonEmptyString(value) == value[1] = "str" /\ value[2] # <<>>

\* C12: an executor does not throw, and when the command failed its result
\* has success false and an error that is a non-empty string.
C12_FailureHasErrorString ==
    executor.pc = "done"
        => /\ ~executor.result.threw
           /\ executor.run.kind # "ok"
                 => /\ executor.result.success = FALSE
                    /\ NonEmptyString(executor.result.error)

(***************************************************************************)
(* gh/convenience.ts.                                                      *)
(*                                                                         *)
(* gh is the state of one call of a convenience function and of what it    *)
(* sees of GitHub:                                                         *)
(*   pc, fn        where the call is, and which function it is;            *)
(*   failed        the gh commands of the call that failed;                *)
(*   outcome, error, value   how the call ended ("returned" or "threw", a  *)
(*                 thrown error being a "gh" or a "timeout" error) and the *)
(*                 value returned (0 for undefined and for void);          *)
(*   runs          the number of runs of the workflow: their ids are       *)
(*                 1..runs, and a listing with limit 1 shows the latest;   *)
(*   before, mine  the number of runs when the trigger was issued, and the *)
(*                 id of the run the trigger made (0 before it exists);    *)
(*   latestBefore, attempts   the locals of runWorkflow;                   *)
(*   args, pollInterval, timeout, start   what waitForCompletion was       *)
(*                 called with, its parameters and its start time;         *)
(*   clock, polls, status   the time, the times at which its last two      *)
(*                 polls began (-1 for none) and what the last reported.   *)
(***************************************************************************)
\* The most runs of the workflow that are followed.
MaxRuns == 3
\* The most failed steps of a run.
MaxFailedSteps == 2

\* runWorkflow: const maxAttempts = 30.
maxAttempts == 30
\* waitForCompletion: pollInterval = 5000, timeout = 600000.
DefaultPollInterval == 5000
DefaultTimeout == 600000

\* A parameter left out of a call.
Omitted == -1
\* beforeResult.success && ... of a failed listing: false.
False == -1

GhIdle ==
    [pc |-> "idle", fn |-> "none", failed |-> {}, outcome |-> "none", error |-> "none",
     value |-> 0, runs |-> 0, before |-> 0, mine |-> 0, latestBefore |-> 0,
     attempts |-> 0, args |-> <<0, 0>>, pollInterval |-> 0, timeout |-> 0, start |-> 0,
     clock |-> 0, polls |-> <<-1, -1>>, status |-> "none"]

InitGh ==
    /\ gh = GhIdle
    /\ browser = <<>> /\ executor = <<>> /\ workitem = <<>> /\ script = <<>> /\ waiter = <<>>
    /\ shape = Sample("empty", 0, 0, 0, <<>>).shape /\ input = <<>>
    /\ adf = NotCalled /\ adfString = NotCalled
    /\ heap = <<>> /\ held = <<>>
    /\ now = 0 /\ fs = <<>> /\ pc = <<>> /\ tmpPath = <<>> /\ outcome = <<>>
    /\ IdleMore

GhReturns(g, value) == [g EXCEPT !.pc = "done", !.outcome = "returned", !.value = value]
GhThrows(g, error) == [g EXCEPT !.pc = "done", !.outcome = "threw", !.error = error]

\* A gh command of the call has run: a failure is noted under its name.
Issued(g, command, ok) == IF ok THEN g ELSE [g EXCEPT !.failed = @ \cup {command}]

\* unwrap that hands on a failed result's data instead of throwing.
unwrapQuietly(g, ok, data) == GhReturns(g, data)

\* unwrap(result, operation) as the last statement of a function: throws
\* when the result is no success, and else the data is returned.
unwrap(g, ok, data) == IF ~ok THEN GhThrows(g, "gh") ELSE GhReturns(g, data)

\* rerunFailed(runId), rerunWithDebug(runId), downloadArtifacts(runId, dir):
\* one command, unwrapped.
CallUnwrapped ==
    /\ gh.pc = "idle"
    /\ \E fn \in {"rerunFailed", "rerunWithDebug", "downloadArtifacts"}, ok \in BOOLEAN :
          gh' = unwrap(Issued([gh EXCEPT !.fn = fn],
                              IF fn = "downloadArtifacts" THEN "run download" ELSE "run rerun",
                              ok),
                       ok, 0)

\* getLatestRun(workflowName): undefined when the listing fails or is empty.
getLatestRun(g, ok) ==
    IF ~ok THEN GhReturns(g, 0) ELSE GhReturns(g, g.runs)

CallGetLatestRun ==
    /\ gh.pc = "idle"
    /\ \E ok \in BOOLEAN, runs \in 0..MaxRuns :
          gh' = getLatestRun(Issued([gh EXCEPT !.fn = "getLatestRun", !.runs = runs],
                                    "run list", ok), ok)

\* getFailedSteps(runId): the jobs are fetched and unwrapped; then the log of
\* each failed step is fetched, and a log that cannot be fetched is left out.
\* logs[i] tells whether the log of the i-th failed step could be fetched;
\* the value returned is the number of failed steps.
getFailedSteps(g, jobsOk, logs) ==
    IF ~jobsOk THEN unwrap(Issued(g, "run view jobs", FALSE), FALSE, 0)
    ELSE GhReturns(Issued(g, "run view log", \A i \in 1..Len(logs) : logs[i]), Len(logs))

CallGetFailedSteps ==
    /\ gh.pc = "idle"
    /\ \E jobsOk \in BOOLEAN, n \in 0..MaxFailedSteps :
          \E logs \in [1..n -> BOOLEAN] :
             gh' = getFailedSteps([gh EXCEPT !.fn = "getFailedSteps"], jobsOk, logs)

\* runWorkflow, the listing before the trigger:
\*   latestBefore = beforeResult.success && beforeResult.data?.[0]?.databaseId
\* (false after a failed listing, undefined, here 0, when there is no run).
ListBefore(g, ok) ==
    [Issued(g, "run list", ok) EXCEPT !.latestBefore = IF ok THEN g.runs ELSE False,
                                      !.pc = "trigger"]

\* runWorkflow(name, options) and runAndWatch(name, options), which begins
\* with runWorkflow.
CallRunWorkflow ==
    /\ gh.pc = "idle"
    /\ \E fn \in {"runWorkflow", "runAndWatch"}, runs \in 0..MaxRuns, ok \in BOOLEAN :
          gh' = ListBefore([gh EXCEPT !.fn = fn, !.runs = runs], ok)

\* runWorkflow: workflow.run(...) and unwrap.
TriggerWorkflow ==
    /\ gh.pc = "trigger"
    /\ \E ok \in BOOLEAN :
          gh' = IF ~ok THEN unwrap(Issued(gh, "workflow run", FALSE), FALSE, 0)
                ELSE [gh EXCEPT !.before = gh.runs, !.pc = "poll"]

\* GitHub makes the run that the trigger asked for.
GithubStartsRun ==
    /\ gh.pc = "poll"
    /\ gh.mine = 0
    /\ gh' = [gh EXCEPT !.runs = @ + 1, !.mine = gh.runs + 1]

\* Something else makes a run of the same workflow.
OtherRunAppears ==
    /\ gh.pc \in {"trigger", "poll"}
    /\ gh.runs < MaxRuns
    /\ gh' = [gh EXCEPT !.runs = @ + 1]

\* runWorkflow has the id of a run: it returns it, and runAndWatch goes on.
RunWorkflowReturns(g, id) ==
    IF g.fn = "runWorkflow" THEN GhReturns(g, id) ELSE [g EXCEPT !.pc = "watch", !.value = id]

\* A poll interval and a timeout that a call passes.
SamplePollInterval == 3000
SampleTimeout == 12000
\* The longest that a run view takes.
MaxDelay == 1000

\* const pollInterval = 2000, in runWorkflow.
RunPollInterval == 2000

\* One turn of a loop that has no bound on its attempts.
PollWithoutLimit(g, ok) ==
    LET listed == [Issued(g, "run list", ok) EXCEPT
                      !.polls = <<g.polls[2], g.clock + RunPollInterval>>,
                      !.clock = @ + RunPollInterval]
    IN  IF ok /\ g.runs > 0 /\ g.runs # g.latestBefore
        THEN RunWorkflowReturns(listed, g.runs)
        ELSE [listed EXCEPT !.attempts = @ + 1]

\* runWorkflow, one turn of the loop: the throw when the attempts are used
\* up; else the sleep of pollInterval ms and the listing (the clock counts
\* the sleeps only), and the return when the listing shows a run whose id
\* is not latestBefore.
PollForRun(g, ok) ==
    LET listed == [Issued(g, "run list", ok) EXCEPT
                      !.polls = <<g.polls[2], g.clock + RunPollInterval>>,
                      !.clock = @ + RunPollInterval]
    IN  IF g.attempts >= maxAttempts THEN GhThrows(g, "timeout")
        ELSE IF ok /\ g.runs > 0 /\ g.runs # g.latestBefore
             THEN RunWorkflowReturns(listed, g.runs)
        ELSE [listed EXCEPT !.attempts = @ + 1]

RunWorkflowPolls ==
    /\ gh.pc = "poll"
    /\ \E ok \in BOOLEAN : gh' = PollForRun(gh, ok)

\* runAndWatch after runWorkflow: run.watch, whose failure is expected and
\* ignored, then run.view, unwrapped.
RunAndWatchEnds ==
    /\ gh.pc = "watch"
    /\ \E watchOk, viewOk \in BOOLEAN :
          gh' = unwrap(Issued(Issued(gh, "run watch", watchOk), "run view", viewOk),
                       viewOk, gh.value)

\* The value of a parameter that has a default.
WithDefault(arg, default) == IF arg = Omitted THEN default ELSE arg

\* waitForCompletion(runId, pollInterval = 5000, timeout = 600000):
\* const start = Date.now().
CallWaitForCompletion ==
    /\ gh.pc = "idle"
    /\ \E pollInterval \in {Omitted, SamplePollInterval}, timeout \in {Omitted, SampleTimeout} :
          gh' = [gh EXCEPT !.fn = "waitForCompletion", !.pc = "wait",
                           !.pollInterval = WithDefault(pollInterval, DefaultPollInterval),
                           !.timeout = WithDefault(timeout, DefaultTimeout),
                           !.args = <<pollInterval, timeout>>,
                           !.start = gh.clock]

\* One turn of the loop that returns what the view shows whatever its status.
WaitReturnsAnyStatus(g, ok, status, delay) ==
    IF ~(g.clock - g.start < g.timeout) THEN GhThrows(g, "timeout")
    ELSE IF ~ok
         THEN unwrap(Issued([g EXCEPT !.polls = <<g.polls[2], g.clock>>,
                                      !.clock = @ + delay], "run view", FALSE), FALSE, 0)
    ELSE GhReturns([g EXCEPT !.polls = <<g.polls[2], g.clock>>, !.clock = @ + delay,
                             !.status = status], 1)

\* One turn of the loop of waitForCompletion: past the timeout the throw, and
\* else run.view (which takes delay ms), unwrapped; the return when its
\* status is "completed", and else the sleep of pollInterval ms.
WaitForCompletionTurn(g, ok, status, delay) ==
    IF ~(g.clock - g.start < g.timeout) THEN GhThrows(g, "timeout")
    ELSE IF ~ok
         THEN unwrap(Issued([g EXCEPT !.polls = <<g.polls[2], g.clock>>,
                                      !.clock = @ + delay], "run view", FALSE), FALSE, 0)
    ELSE IF status = "completed"
         THEN GhReturns([g EXCEPT !.polls = <<g.polls[2], g.clock>>, !.clock = @ + delay,
                                  !.status = status], 1)
    ELSE [g EXCEPT !.polls = <<g.polls[2], g.clock>>,
                   !.clock = @ + delay + g.pollInterval,
                   !.status = status]

WaitForCompletionPolls ==
    /\ gh.pc = "wait"
    /\ \E ok \in BOOLEAN, status \in {"queued", "in_progress", "completed"},
          delay \in {0, MaxDelay} :
          gh' = WaitForCompletionTurn(gh, ok, status, delay)

\* The call is over; the caller goes on.
GhCallOver ==
    /\ gh.pc = "done"
    /\ gh' = GhIdle

NextGh ==
    /\ UNCHANGED <<pureVars, convVars, tempVars, moreVars, browser, executor, workitem, script, waiter>>
    /\ \/ CallUnwrapped
       \/ CallGetLatestRun
       \/ CallGetFailedSteps
       \/ CallRunWorkflow
       \/ TriggerWorkflow
       \/ GithubStartsRun
       \/ OtherRunAppears
       \/ RunWorkflowPolls
       \/ RunAndWatchEnds
       \/ CallWaitForCompletion
       \/ WaitForCompletionPolls
       \/ GhCallOver

SpecGh == InitGh /\ [][NextGh]_vars

\* The gh commands whose result the convenience functions unwrap.
UnwrappedCommands == {"workflow run", "run view", "run view jobs", "run rerun", "run download"}

C14_WaitForCompletion ==
    gh.fn = "waitForCompletion"
        => /\ gh.args[1] = Omitted => gh.pollInterval = 5000
           /\ gh.args[2] = Omitted => gh.timeout = 600000
           /\ gh.polls[1] >= 0 => gh.polls[2] - gh.polls[1] >= gh.pollInterval
           /\ gh.pc = "wait" => gh.status # "completed"
           /\ gh.pc = "done"
                 => \/ /\ gh.outcome = "returned" /\ gh.status = "completed"
                       /\ gh.polls[2] - gh.start < gh.timeout
                    \/ /\ gh.outcome = "threw" /\ gh.error = "timeout"
                       /\ gh.status # "completed"
                       /\ gh.clock - gh.start >= gh.timeout
                    \/ /\ gh.outcome = "threw" /\ gh.error = "gh"
                       /\ "run view" \in gh.failed

\* C14 witness: a call with both parameters left out has thrown its timeout
\* error, 600000 ms or more after it began, its last poll showing the run in
\* progress.
C14_Witness ==
    /\ gh.pc = "done" /\ gh.fn = "waitForCompletion" /\ gh.args = <<Omitted, Omitted>>
    /\ gh.outcome = "threw" /\ gh.error = "timeout"
    /\ gh.status = "in_progress"
    /\ gh.clock - gh.start >= 600000

\* C15 as stated: the id that runWorkflow returns is not the id of a run
\* that there was when the workflow was triggered.
C15_ReturnsNewRun ==
    (gh.pc = "done" /\ gh.fn = "runWorkflow" /\ gh.outcome = "returned")
        => gh.value > gh.before

(***************************************************************************)
(* acli/workitem.ts: the payloads of create and edit.                      *)
(*                                                                         *)
(* workitem is [pc, fn, options, payload]: the function called, the        *)
(* options it was called with (an option the caller left out is            *)
(* JUndefined) and the payload it handed to withTempJson, an object value. *)
(***************************************************************************)
\* payload.key = value.
Put(payload, key, value) == JObj(Append(payload[2], <<key, value>>))

\* A field set whether or not the option is there.
PutAlways(payload, cond, key, value) == Put(payload, key, value)

\* if (cond) payload.key = value.
PutIf(payload, cond, key, value) == IF cond THEN Put(payload, key, value) ELSE payload

\* options.labels?.length
HasLength(value) == value[1] = "arr" /\ Len(value[2]) > 0

\* The description given as the JSON text of the document.
DescribeWithString(payload, options) ==
    IF Truthy(options.descriptionMarkdown)
    THEN Put(payload, "description",
             JStr(markdownToAdfString(options.descriptionMarkdown[2]).value))
    ELSE PutIf(payload, Truthy(options.description), "description", options.description)

\* if (options.descriptionMarkdown) payload.description = markdownToAdf(...)
\* else if (options.description) payload.description = options.description
Describe(payload, options) ==
    IF Truthy(options.descriptionMarkdown)
    THEN Put(payload, "description", markdownToAdf(options.descriptionMarkdown[2]).value)
    ELSE PutIf(payload, Truthy(options.description), "description", options.description)

\* create(options): the payload.
create(options) ==
    LET p0 == JObj(<< <<"projectKey", options.project>>, <<"type", options.type>>,
                      <<"summary", options.summary>> >>)
        p1 == Describe(p0, options)
        p2 == PutIf(p1, Truthy(options.assignee), "assignee", options.assignee)
        p3 == PutIf(p2, HasLength(options.labels), "labels", options.labels)
        p4 == PutIf(p3, Truthy(options.parent), "parentIssueId", options.parent)
    IN  PutIf(p4, Truthy(options.customFields), "additionalAttributes", options.customFields)

\* edit(options): the payload.
edit(options) ==
    LET issues == IF options.key[1] = "arr" THEN options.key ELSE JArr(<<options.key>>)
        p0 == JObj(<< <<"issues", issues>> >>)
        p1 == PutIf(p0, Truthy(options.summary), "summary", options.summary)
        p2 == Describe(p1, options)
        p3 == PutIf(p2, Truthy(options.assignee), "assignee", options.assignee)
        p4 == PutIf(p3, HasLength(options.labelsToAdd), "labelsToAdd", options.labelsToAdd)
        p5 == PutIf(p4, HasLength(options.labelsToRemove), "labelsToRemove",
                    options.labelsToRemove)
        p6 == PutIf(p5, Truthy(options.type), "type", options.type)
    IN  PutIf(p6, Truthy(options.customFields), "additionalAttributes", options.customFields)

\* What a caller passes for an option that is a string, a markdown text, a
\* list of labels and an object of custom fields: nothing, an empty value or
\* a value.
Strings(s) == {JUndefined, JStr(<<>>), JStr(<<s>>)}
Markdowns == {JUndefined, JStr(<<>>), JStr(Hashes(1) \o <<" ">> \o HeadingTexts[3])}
Labels == {JUndefined, JArr(<<>>), JArr(<<JStr(<<"bug">>)>>)}
CustomFields == {JUndefined, JObj(<<>>), JObj(<< <<"customfield_1", JStr(<<"x">>)>> >>)}

CreateOptions ==
    [project : {JStr(<<"TEAM">>)}, type : {JStr(<<"Task">>)}, summary : {JStr(<<"S">>)},
     descriptionMarkdown : Markdowns, description : Strings("plain"),
     assignee : Strings("@me"), labels : Labels, parent : Strings("TEAM-1"),
     customFields : CustomFields]

EditOptions ==
    [key : {JStr(<<"TEAM-1">>), JArr(<<JStr(<<"TEAM-1">>), JStr(<<"TEAM-2">>)>>)},
     summary : Strings("S"),
     descriptionMarkdown : Markdowns, description : Strings("plain"),
     assignee : {JUndefined, JStr(<<"@me">>)}, labelsToAdd : Labels,
     labelsToRemove : {JUndefined, JArr(<<JStr(<<"old">>)>>)},
     type : {JUndefined, JStr(<<"Bug">>)},
     customFields : CustomFields]

InitWorkitem ==
    /\ workitem = [pc |-> "idle", fn |-> "none", options |-> <<>>, payload |-> <<>>]
    /\ browser = <<>> /\ executor = <<>> /\ gh = <<>> /\ script = <<>> /\ waiter = <<>>
    /\ shape = Sample("empty", 0, 0, 0, <<>>).shape /\ input = <<>>
    /\ adf = NotCalled /\ adfString = NotCalled
    /\ heap = <<>> /\ held = <<>>
    /\ now = 0 /\ fs = <<>> /\ pc = <<>> /\ tmpPath = <<>> /\ outcome = <<>>
    /\ IdleMore

CallCreate ==
    /\ workitem.pc = "idle"
    /\ \E options \in CreateOptions :
          workitem' = [pc |-> "done", fn |-> "create", options |-> options,
                       payload |-> create(options)]

CallEdit ==
    /\ workitem.pc = "idle"
    /\ \E options \in EditOptions :
          workitem' = [pc |-> "done", fn |-> "edit", options |-> options,
                       payload |-> edit(options)]

\* The call is over; the caller goes on.
WorkitemReturns ==
    /\ workitem.pc = "done"
    /\ workitem' = [pc |-> "idle", fn |-> "none", options |-> <<>>, payload |-> <<>>]

NextWorkitem ==
    /\ UNCHANGED <<pureVars, convVars, tempVars, moreVars, browser, executor, gh, script, waiter>>
    /\ \/ CallCreate
       \/ CallEdit
       \/ WorkitemReturns

SpecWorkitem == InitWorkitem /\ [][NextWorkitem]_vars

Provided(value) == value[1] # "undefined"

\* C16: the payload of edit has issues, the keys as an array, and has summary,
\* assignee, labelsToAdd, labelsToRemove, type or additionalAttributes only
\* with the value of the option of that name (customFields for the last)
\* that the caller provided, and description only if descriptionMarkdown or
\* description was provided.
C16_EditPayloadFields ==
    (workitem.pc = "done" /\ workitem.fn = "edit")
        => /\ HasField(workitem.payload, "issues")
           /\ Field(workitem.payload, "issues")[1] = "arr"
           /\ \A i \in 1..Len(workitem.payload[2]) :
                 workitem.payload[2][i][1] \in
                    {"issues", "summary", "description", "assignee", "labelsToAdd",
                     "labelsToRemove", "type", "additionalAttributes"}
           /\ \A f \in {"summary", "assignee", "labelsToAdd", "labelsToRemove", "type"} :
                 HasField(workitem.payload, f)
                    => /\ Provided(workitem.options[f])
                       /\ Field(workitem.payload, f) = workitem.options[f]
           /\ HasField(workitem.payload, "additionalAttributes")
                 => /\ Provided(workitem.options.customFields)
                    /\ Field(workitem.payload, "additionalAttributes")
                          = workitem.options.customFields
           /\ HasField(workitem.payload, "description")
                 => \/ Provided(workitem.options.descriptionMarkdown)
                    \/ Provided(workitem.options.description)

\* C16 witness: an edit of two issues with a summary and custom fields and
\* nothing else: the payload has issues, summary and additionalAttributes.
C16_Witness ==
    /\ workitem.pc = "done" /\ workitem.fn = "edit"
    /\ Len(Field(workitem.payload, "issues")[2]) = 2
    /\ {workitem.payload[2][i][1] : i \in 1..Len(workitem.payload[2])}
          = {"issues", "summary", "additionalAttributes"}
    /\ ~Provided(workitem.options.labelsToAdd) /\ ~Provided(workitem.options.type)

\* C17 as stated: with a descriptionMarkdown option the payload of create and
\* of edit has a description, the ADF document object.
C17_MarkdownGivesDocument ==
    (workitem.pc = "done" /\ Provided(workitem.options.descriptionMarkdown))
        => /\ HasField(workitem.payload, "description")
           /\ IsAdfDocument(Field(workitem.payload, "description"))

\* C17, amended: with a descriptionMarkdown that is not empty the payload of
\* create and of edit has a description, whatever the description option is:
\* the object that markdownToAdf makes of the markdown, an ADF document and
\* no string.
C17_NonEmptyMarkdownGivesDocument ==
    (workitem.pc = "done" /\ Provided(workitem.options.descriptionMarkdown)
        /\ workitem.options.descriptionMarkdown[2] # <<>>)
        => /\ HasField(workitem.payload, "description")
           /\ Field(workitem.payload, "description")[1] = "obj"
           /\ Field(workitem.payload, "description")
                 = markdownToAdf(workitem.options.descriptionMarkdown[2]).value
           /\ IsAdfDocument(Field(workitem.payload, "description"))

\* C17 witness: an edit with a markdown and a plain description has the
\* document as its description.
C17_Witness ==
    /\ workitem.pc = "done" /\ workitem.fn = "edit"
    /\ workitem.options.descriptionMarkdown[2] # <<>>
    /\ workitem.options.description = JStr(<<"plain">>)
    /\ IsAdfDocument(Field(workitem.payload, "description"))

(***************************************************************************)
(* setup.ts and selfUpdate.ts: the steps of main().                        *)
(*                                                                         *)
(* script is [which, pc, dryRun, skipDeps, exists, effects, printed,       *)
(* failed, temp]: the script that runs and where it is, its --dry-run and  *)
(* --skip-deps flags, whether the agent-scripts directory was there        *)
(* before, what it has done to the machine (the directories made, the      *)
(* files written, the paths removed, the download, the install), the       *)
(* "would ..." lines it has printed, whether a command failed, and whether *)
(* the directory .agent-scripts-temp is there.                             *)
(***************************************************************************)
Does(s, effects) == [s EXCEPT !.effects = @ \cup effects]
Says(s, lines) == [s EXCEPT !.printed = @ \cup lines]
At(s, where) == [s EXCEPT !.pc = where]

\* A command of the script has failed: main().catch prints the error and
\* exits with 1.
Fails(s) == [s EXCEPT !.failed = TRUE, !.pc = "exit"]

\* The directory made whether or not the run is a dry run.
MakeDirAlways(s) == At(Does(s, {<<"mkdir", "agent-scripts">>}), "config")

\* setup main: if (!dryRun) mkdir -p agentScriptsDir.
MakeDir(s) == At(IF ~s.dryRun THEN Does(s, {<<"mkdir", "agent-scripts">>}) ELSE s, "config")

\* The files of writeConfigFiles.
ConfigFiles == <<"package.json", "tsconfig.json", ".gitignore">>

\* setup writeConfigFiles: each file is written, or named when dryRun.
writeConfigFiles(s) ==
    At(IF s.dryRun
       THEN Says(s, {<<"Would create", ConfigFiles[i]>> : i \in 1..Len(ConfigFiles)})
       ELSE Does(s, {<<"write", ConfigFiles[i]>> : i \in 1..Len(ConfigFiles)}),
       "download")

\* downloadAndExtract and downloadAndUpdate up to the try: with dryRun what
\* would be done is printed and the function returns.
BeginDownload(s) ==
    IF s.dryRun THEN At(Says(s, {<<"Would download", "tarball">>}), "deps") ELSE At(s, "temp")

\* mkdir -p tempDir, the first command of the try: a failure goes to the
\* finally block.
MakeTempDir(s, ok) ==
    IF ok THEN At([Does(s, {<<"mkdir", "temp">>}) EXCEPT !.temp = TRUE], "curl")
    ELSE [Does(s, {<<"mkdir", "temp">>}) EXCEPT !.failed = TRUE, !.pc = "cleanup"]

\* curl ... | tar -xz: a failure goes to the finally block.
Download(s, ok) ==
    IF ok THEN At(Does(s, {<<"curl", "tarball">>}), "copy")
    ELSE [Does(s, {<<"curl", "tarball">>}) EXCEPT !.failed = TRUE, !.pc = "cleanup"]

\* The directories and the top-level files are copied (setup removes a
\* directory before it copies it), then the skills, then the rules file is
\* written.  A copy that fails (here the first one) goes to the finally
\* block.
CopyFiles(s, ok) ==
    IF ~ok
    THEN [Does(s, IF s.which = "setup"
                  THEN {<<"rm", "lib">>, <<"mkdir", "lib">>, <<"copy", "lib">>}
                  ELSE {<<"mkdir", "lib">>, <<"copy", "lib">>})
             EXCEPT !.failed = TRUE, !.pc = "cleanup"]
    ELSE
    At(Does(s, IF s.which = "setup"
               THEN {<<"rm", "lib">>, <<"mkdir", "lib">>, <<"copy", "lib">>,
                     <<"mkdir", "skills">>, <<"rm", "skill">>, <<"copy", "skill">>,
                     <<"mkdir", "rules">>, <<"write", "agent-scripts.md">>}
               ELSE {<<"mkdir", "lib">>, <<"copy", "lib">>,
                     <<"mkdir", "skills">>, <<"mkdir", "skill">>, <<"write", "SKILL.md">>,
                     <<"mkdir", "rules">>, <<"write", "agent-scripts.md">>}),
       "cleanup")

\* The temporary directory removed as the last statement of the try block:
\* an error before it skips it.
RemoveTempDirAfterCopy(s) ==
    IF s.failed THEN Fails(s)
    ELSE At([Does(s, {<<"rm", "temp">>}) EXCEPT !.temp = FALSE], "deps")

\* finally: rm -rf tempDir; an error of the try goes on to main().catch.
RemoveTempDir(s) ==
    IF s.failed THEN Fails([Does(s, {<<"rm", "temp">>}) EXCEPT !.temp = FALSE])
    ELSE At([Does(s, {<<"rm", "temp">>}) EXCEPT !.temp = FALSE], "deps")

\* if (!skipDeps) installDeps / updateDeps: bun add, or its name when dryRun.
InstallDeps(s, ok) ==
    LET next == IF s.which = "setup" THEN "doc" ELSE "summary"
    IN  IF s.skipDeps THEN At(s, next)
        ELSE IF s.dryRun THEN At(Says(s, {<<"Would install", "dependencies">>}), next)
        ELSE IF ok THEN At(Does(s, {<<"bun", "add">>}), next)
        ELSE Fails(Does(s, {<<"bun", "add">>}))

\* setup main: AGENT_SCRIPTS.md is written, or named when dryRun.
WriteDoc(s) ==
    At(IF s.dryRun THEN Says(s, {<<"Would create", "AGENT_SCRIPTS.md">>})
       ELSE Does(s, {<<"write", "AGENT_SCRIPTS.md">>}),
       "exit")

\* selfUpdate printSummary.
printSummary(s) ==
    At(IF s.dryRun THEN Says(s, {<<"Dry run", "no changes made">>}) ELSE s, "exit")

ScriptIdle ==
    [which |-> "none", pc |-> "idle", dryRun |-> FALSE, skipDeps |-> FALSE,
     exists |-> FALSE, effects |-> {}, printed |-> {}, failed |-> FALSE,
     temp |-> FALSE]

InitScript ==
    /\ script = ScriptIdle
    /\ browser = <<>> /\ executor = <<>> /\ gh = <<>> /\ workitem = <<>> /\ waiter = <<>>
    /\ shape = Sample("empty", 0, 0, 0, <<>>).shape /\ input = <<>>
    /\ adf = NotCalled /\ adfString = NotCalled
    /\ heap = <<>> /\ held = <<>>
    /\ now = 0 /\ fs = <<>> /\ pc = <<>> /\ tmpPath = <<>> /\ outcome = <<>>
    /\ IdleMore

\* bun setup.ts [--dry-run] [--skip-deps], bun selfUpdate.ts [--dry-run]
\* [--skip-deps]: main() up to the first step.
RunScript ==
    /\ script.pc = "idle"
    /\ \E which \in {"setup", "selfUpdate"}, dryRun, skipDeps, exists \in BOOLEAN :
          script' = [ScriptIdle EXCEPT !.which = which, !.dryRun = dryRun,
                                       !.skipDeps = skipDeps, !.exists = exists,
                                       !.pc = IF which = "setup" THEN "mkdir" ELSE "download"]

SetupMakesDir == script.pc = "mkdir" /\ script' = MakeDir(script)

SetupWritesConfig == script.pc = "config" /\ script' = writeConfigFiles(script)

ScriptBeginsDownload == script.pc = "download" /\ script' = BeginDownload(script)

ScriptMakesTempDir == script.pc = "temp" /\ \E ok \in BOOLEAN : script' = MakeTempDir(script, ok)

ScriptDownloads == script.pc = "curl" /\ \E ok \in BOOLEAN : script' = Download(script, ok)

ScriptCopies == script.pc = "copy" /\ \E ok \in BOOLEAN : script' = CopyFiles(script, ok)

ScriptRemovesTempDir == script.pc = "cleanup" /\ script' = RemoveTempDir(script)

ScriptInstallsDeps == script.pc = "deps" /\ \E ok \in BOOLEAN : script' = InstallDeps(script, ok)

SetupWritesDoc == script.pc = "doc" /\ script' = WriteDoc(script)

SelfUpdatePrintsSummary == script.pc = "summary" /\ script' = printSummary(script)

\* The process is over.
ScriptExits == script.pc = "exit" /\ script' = ScriptIdle

NextScript ==
    /\ UNCHANGED <<pureVars, convVars, tempVars, moreVars, browser, executor, gh, workitem, waiter>>
    /\ \/ RunScript
       \/ SetupMakesDir
       \/ SetupWritesConfig
       \/ ScriptBeginsDownload
       \/ ScriptMakesTempDir
       \/ ScriptDownloads
       \/ ScriptCopies
       \/ ScriptRemovesTempDir
       \/ ScriptInstallsDeps
       \/ SetupWritesDoc
       \/ SelfUpdatePrintsSummary
       \/ ScriptExits

SpecScript == InitScript /\ [][NextScript]_vars

\* C18: a run with --dry-run, of either script, has at no point made,
\* written or removed a file or directory, downloaded or installed anything;
\* and when it is over it has printed what would be done and has not failed.
C18_DryRunChangesNothing ==
    script.dryRun
        => /\ script.effects = {}
           /\ script.pc = "exit" => (script.printed # {} /\ ~script.failed)

\* C18 witness: a dry run of the setup script into a directory that is not
\* there yet is over: nothing was done, and the config files, the download,
\* the install and the documentation were named.
C18_Witness ==
    /\ script.which = "setup" /\ script.dryRun /\ ~script.skipDeps /\ ~script.exists
    /\ script.pc = "exit"
    /\ script.effects = {}
    /\ {<<"Would download", "tarball">>, <<"Would install", "dependencies">>}
          \subseteq script.printed

(***************************************************************************)
(* peekaboo/convenience.ts: waitForElement.                                *)
(*                                                                         *)
(* waiter is [pc, args, timeout, interval, start, clock, polls, found,     *)
(* outcome, error]: where the call is, the timeout and the interval it was *)
(* called with (Omitted when left out) and the ones it uses, its start     *)
(* time, the time, the times at which its last two polls began (-1 for     *)
(* none), whether the last poll found the element, and how the call ended  *)
(* ("returned" the element, or "threw" the "timeout" error or the error    *)
(* "detect" of a failed findElement).                                      *)
(***************************************************************************)
\* waitForElement: options?.timeout || 10000, options?.interval || 500.
DefaultWaitTimeout == 10000
DefaultWaitInterval == 500

\* A timeout and an interval that a call passes.
SampleWaitTimeout == 2000
SampleWaitInterval == 200
\* The longest that findElement takes.
MaxDetect == 300

\* arg || default: the default also stands in for 0.
OrDefault(arg, default) == IF arg = Omitted \/ arg = 0 THEN default ELSE arg

WaiterIdle ==
    [pc |-> "idle", args |-> <<0, 0>>, timeout |-> 0, interval |-> 0, start |-> 0,
     clock |-> 0, polls |-> <<-1, -1>>, found |-> FALSE, outcome |-> "none",
     error |-> "none"]

InitWait ==
    /\ waiter = WaiterIdle
    /\ browser = <<>> /\ executor = <<>> /\ gh = <<>> /\ workitem = <<>> /\ script = <<>>
    /\ shape = Sample("empty", 0, 0, 0, <<>>).shape /\ input = <<>>
    /\ adf = NotCalled /\ adfString = NotCalled
    /\ heap = <<>> /\ held = <<>>
    /\ now = 0 /\ fs = <<>> /\ pc = <<>> /\ tmpPath = <<>> /\ outcome = <<>>
    /\ IdleMore

\* waitForElement(text, options) up to the loop.
CallWaitForElement ==
    /\ waiter.pc = "idle"
    /\ \E timeout \in {Omitted, 0, SampleWaitTimeout},
          interval \in {Omitted, 0, SampleWaitInterval} :
          waiter' = [waiter EXCEPT !.pc = "wait", !.args = <<timeout, interval>>,
                                   !.timeout = OrDefault(timeout, DefaultWaitTimeout),
                                   !.interval = OrDefault(interval, DefaultWaitInterval),
                                   !.start = waiter.clock]

\* One turn of the loop that sleeps and polls again though the element was
\* found.
WaitKeepsPolling(w, ok, found, delay) ==
    IF ~(w.clock - w.start < w.timeout)
    THEN [w EXCEPT !.pc = "done", !.outcome = "threw", !.error = "timeout"]
    ELSE IF ~ok
         THEN [w EXCEPT !.polls = <<w.polls[2], w.clock>>, !.clock = @ + delay,
                        !.pc = "done", !.outcome = "threw", !.error = "detect"]
    ELSE [w EXCEPT !.polls = <<w.polls[2], w.clock>>, !.found = found,
                   !.clock = @ + delay + w.interval]

\* One turn of the loop of waitForElement: past the timeout the throw, and
\* else findElement (which takes delay ms, and throws when the detection
\* fails); the return when it found the element, and else the sleep of
\* interval ms.
WaitForElementTurn(w, ok, found, delay) ==
    IF ~(w.clock - w.start < w.timeout)
    THEN [w EXCEPT !.pc = "done", !.outcome = "threw", !.error = "timeout"]
    ELSE IF ~ok
         THEN [w EXCEPT !.polls = <<w.polls[2], w.clock>>, !.clock = @ + delay,
                        !.pc = "done", !.outcome = "threw", !.error = "detect"]
    ELSE IF found
         THEN [w EXCEPT !.polls = <<w.polls[2], w.clock>>, !.clock = @ + delay,
                        !.found = TRUE, !.pc = "done", !.outcome = "returned"]
    ELSE [w EXCEPT !.polls = <<w.polls[2], w.clock>>, !.found = FALSE,
                   !.clock = @ + delay + w.interval]

WaitForElementPolls ==
    /\ waiter.pc = "wait"
    /\ \E ok, found \in BOOLEAN, delay \in {0, MaxDetect} :
          waiter' = WaitForElementTurn(waiter, ok, found, delay)

\* The call is over; the caller goes on.
WaitForElementOver ==
    /\ waiter.pc = "done"
    /\ waiter' = WaiterIdle

NextWait ==
    /\ UNCHANGED <<pureVars, convVars, tempVars, moreVars, browser, executor, gh, workitem, script>>
    /\ \/ CallWaitForElement
       \/ WaitForElementPolls
       \/ WaitForElementOver

SpecWait == InitWait /\ [][NextWait]_vars

\* C19: waitForElement uses a timeout of 10000 and an interval of 500 when
\* they are left out; its polls are interval ms apart or more; it goes on
\* polling only while no poll has found the element; it has returned only
\* after a poll, begun before the timeout, that found the element; it has
\* thrown its timeout error only with no element found and timeout ms gone
\* by; and it ends in no other way unless findElement throws.
C19_WaitForElement ==
    waiter.pc # "idle"
        => /\ waiter.args[1] = Omitted => waiter.timeout = 10000
           /\ waiter.args[2] = Omitted => waiter.interval = 500
           /\ waiter.polls[1] >= 0 => waiter.polls[2] - waiter.polls[1] >= waiter.interval
           /\ waiter.pc = "wait" => ~waiter.found
           /\ waiter.pc = "done"
                 => \/ /\ waiter.outcome = "returned" /\ waiter.found
                       /\ waiter.polls[2] - waiter.start < waiter.timeout
                    \/ /\ waiter.outcome = "threw" /\ waiter.error = "timeout"
                       /\ ~waiter.found
                       /\ waiter.clock - waiter.start >= waiter.timeout
                    \/ waiter.outcome = "threw" /\ waiter.error = "detect"

\* C19 witness: a call with the timeout and the interval left out has thrown
\* its timeout error 10000 ms or more after it began, having polled again
\* and again.
C19_Witness ==
    /\ waiter.pc = "done" /\ waiter.args = <<Omitted, Omitted>>
    /\ waiter.outcome = "threw" /\ waiter.error = "timeout"
    /\ waiter.clock - waiter.start >= 10000
    /\ waiter.polls[1] >= 0

(***************************************************************************)
(* chrome/base.ts: the module's runtime and the calls that overlap on it.  *)
(*                                                                         *)
(* chrome is                                                               *)
(*   runtime     the module variable: 0 for null, else the id of a runtime *)
(*   made        how many runtimes createRuntime has made (ids 1..made)    *)
(*   closed      the runtimes on which close was called                    *)
(*   epochMade   the runtimes made since closeChrome last reset the        *)
(*               variable (or since the module was loaded)                 *)
(*   epochUsed   the runtimes that calls begun since then returned or      *)
(*               called a tool on                                          *)
(*   overlapped  whether, since then, a call began while another call's    *)
(*               createRuntime() was pending, or two such calls were still *)
(*               pending at the reset                                      *)
(*   calls       per client its call: [pc, fn, used, threw, left], used    *)
(*               the runtime it returned, called a tool on or closes, and  *)
(*               left the module variable as closeChrome left it           *)
(***************************************************************************)
\* The clients whose calls may overlap, and the most runtimes made.
NumClients == 2
MaxRuntimes == 3

Clients == 1..NumClients

NoChromeCall == [pc |-> "idle", fn |-> "none", used |-> 0, threw |-> FALSE, left |-> 0]

InitChrome ==
    /\ chrome = [runtime |-> 0, made |-> 0, closed |-> {}, epochMade |-> {},
                 epochUsed |-> {}, overlapped |-> FALSE,
                 calls |-> [c \in Clients |-> NoChromeCall]]
    /\ webdev = <<>> /\ app = <<>> /\ peek = <<>>
    /\ IdleBase /\ IdleRest

\* A runtime made on every call.
NeedsRuntimeAlways(ch) == TRUE

\* if (!runtime)
NeedsRuntime(ch) == ch.runtime = 0

\* The call of client c goes on with the module's runtime as it is now:
\* getChrome returns it, chromeExec calls runtime.callTool.
UseRuntime(ch, c) ==
    [ch EXCEPT !.epochUsed = @ \cup {ch.runtime},
               !.calls[c].used = ch.runtime,
               !.calls[c].pc = IF ch.calls[c].fn = "getChrome" THEN "done" ELSE "calling"]

\* getChrome() and chromeExec(...) up to their first await.
BeginUse(c) ==
    /\ chrome.calls[c].pc = "idle"
    /\ \E fn \in {"getChrome", "chromeExec"} :
          LET ch == [chrome EXCEPT !.calls[c] = [NoChromeCall EXCEPT !.fn = fn]]
          IN  IF NeedsRuntime(ch)
              THEN /\ chrome.made + Cardinality({d \in Clients :
                                                   chrome.calls[d].pc = "creating"})
                         < MaxRuntimes
                   /\ chrome' = [ch EXCEPT
                         !.calls[c].pc = "creating",
                         !.overlapped = @ \/ \E d \in Clients \ {c} :
                                                   chrome.calls[d].pc = "creating"]
              ELSE chrome' = UseRuntime(ch, c)

\* runtime = await createRuntime(): the promise resolves with a new runtime,
\* which is assigned, and the call goes on with the module variable.
RuntimeCreated(c) ==
    /\ chrome.calls[c].pc = "creating"
    /\ chrome' = UseRuntime([chrome EXCEPT !.runtime = chrome.made + 1,
                                           !.made = @ + 1,
                                           !.epochMade = @ \cup {chrome.made + 1}], c)

\* createRuntime() rejects: the call throws, and nothing is assigned.
CreateRuntimeFails(c) ==
    /\ chrome.calls[c].pc = "creating"
    /\ chrome' = [chrome EXCEPT !.calls[c].pc = "done", !.calls[c].threw = TRUE]

\* chromeExec: runtime.callTool settles; the result is returned, or a tool
\* error thrown.
CallToolSettles(c) ==
    /\ chrome.calls[c].pc = "calling"
    /\ \E isError \in BOOLEAN :
          chrome' = [chrome EXCEPT !.calls[c].pc = "done", !.calls[c].threw = isError]

\* closeChrome() up to its await: with no runtime it is over at once.
BeginClose(c) ==
    /\ chrome.calls[c].pc = "idle"
    /\ chrome' = [chrome EXCEPT
          !.calls[c] = [NoChromeCall EXCEPT
                           !.fn = "closeChrome",
                           !.used = chrome.runtime,
                           !.left = chrome.runtime,
                           !.pc = IF chrome.runtime # 0 THEN "closing" ELSE "done"]]

\* Whether two calls are both waiting for their createRuntime().
StillOverlapping(ch) ==
    \E c, d \in Clients : c # d /\ ch.calls[c].pc = "creating" /\ ch.calls[d].pc = "creating"

\* closeChrome with no try around the close: a failed close is thrown on,
\* and the variable keeps the runtime.
CloseUncaught(ch, c, ok) ==
    IF ok
    THEN [ch EXCEPT !.closed = @ \cup {ch.calls[c].used}, !.runtime = 0,
                    !.epochMade = {}, !.epochUsed = {}, !.overlapped = StillOverlapping(ch),
                    !.calls[c].pc = "done", !.calls[c].left = 0]
    ELSE [ch EXCEPT !.closed = @ \cup {ch.calls[c].used},
                    !.calls[c].pc = "done", !.calls[c].threw = TRUE,
                    !.calls[c].left = ch.runtime]

\* closeChrome after its await: runtime.close(...) has settled, an error is
\* ignored, and runtime = null.
CloseSettled(ch, c, ok) ==
    [ch EXCEPT !.closed = @ \cup {ch.calls[c].used}, !.runtime = 0,
               !.epochMade = {}, !.epochUsed = {}, !.overlapped = StillOverlapping(ch),
               !.calls[c].pc = "done", !.calls[c].left = 0]

CloseSettles(c) ==
    /\ chrome.calls[c].pc = "closing"
    /\ \E ok \in BOOLEAN : chrome' = CloseSettled(chrome, c, ok)

\* The call of client c is over; the client goes on.
ChromeCallOver(c) ==
    /\ chrome.calls[c].pc = "done"
    /\ chrome' = [chrome EXCEPT !.calls[c] = NoChromeCall]

NextChrome ==
    /\ UNCHANGED <<pureVars, convVars, tempVars, restVars, webdev, app, peek>>
    /\ \E c \in Clients :
          \/ BeginUse(c)
          \/ RuntimeCreated(c)
          \/ CreateRuntimeFails(c)
          \/ CallToolSettles(c)
          \/ BeginClose(c)
          \/ CloseSettles(c)
          \/ ChromeCallOver(c)

SpecChrome == InitChrome /\ [][NextChrome]_vars

C22_OneRuntimeForOverlappingCalls ==
    /\ Cardinality(chrome.epochMade) <= 1
    /\ chrome.epochUsed \subseteq chrome.epochMade
    /\ \A r \in 1..chrome.made : r = chrome.runtime \/ r \in chrome.closed

\* C23: a closeChrome that is over has not thrown and left the variable
\* null; and with no runtime it is over at once, having closed nothing.
C23_CloseChrome ==
    \A c \in Clients :
        chrome.calls[c].fn = "closeChrome"
            => /\ chrome.calls[c].pc \in {"closing", "done"}
               /\ chrome.calls[c].pc = "done"
                     => ~chrome.calls[c].threw /\ chrome.calls[c].left = 0
               /\ chrome.calls[c].pc = "closing" => chrome.calls[c].used # 0
               /\ chrome.calls[c].used = 0 => chrome.calls[c].pc = "done"

\* C23 witness: one closeChrome is over after closing a runtime, and a
\* second one, called with no runtime, is over too; none threw and the
\* variable is null.
C23_Witness ==
    /\ chrome.runtime = 0 /\ chrome.closed = {1}
    /\ \E c, d \in Clients :
          /\ chrome.calls[c].fn = "closeChrome" /\ chrome.calls[c].pc = "done"
          /\ chrome.calls[c].used = 1
          /\ chrome.calls[d].fn = "closeChrome" /\ chrome.calls[d].pc = "done"
          /\ chrome.calls[d].used = 0

\* C24 as stated: two calls that overlap never have the same path, and while
\* the callback of a call runs the file at its path is there and holds the
\* data of that call.
C24_OverlappingCallsKeepTheirFiles ==
    /\ \A c, d \in Calls :
          c # d /\ pc[c] \in {"writing", "fn", "finally"}
                /\ pc[d] \in {"writing", "fn", "finally"}
              => tmpPath[c] # tmpPath[d]
    /\ \A c \in Calls : pc[c] = "fn" => FileRead(c) = "own"

(***************************************************************************)
(* webdev/index.ts: captureFullBrowser and testSession.  Both run inside   *)
(* withFocusPreservation, which hands on what its callback returns or      *)
(* throws and touches no browser.  webdev is the call: fn the function,    *)
(* waitForText whether the parameter was given, pc where the call is and   *)
(* outcome how it ended; browser is the state of Chrome as above.          *)
(***************************************************************************)
WebdevIdle == [fn |-> "none", waitForText |-> FALSE, pc |-> "idle", outcome |-> "none"]

InitWebdev ==
    /\ webdev = WebdevIdle
    /\ browser = [runtime |-> 0, chrome |-> {}, mcp |-> {}, epoch |-> 0,
                  pc |-> "idle", keepOpen |-> FALSE, outcome |-> "none"]
    /\ executor = <<>> /\ gh = <<>> /\ workitem = <<>> /\ script = <<>> /\ waiter = <<>>
    /\ chrome = <<>> /\ app = <<>> /\ peek = <<>>
    /\ IdleBase

\* A chrome tool call: without a runtime one is created, which starts an MCP
\* server process and with it a browser.
ChromeToolCall(b) ==
    IF b.runtime # 0 THEN b
    ELSE [b EXCEPT !.runtime = b.epoch, !.mcp = @ \cup {b.epoch}, !.chrome = @ \cup {b.epoch}]

\* captureFullBrowser(params) or testSession(params, fn) is called:
\* withBrowser(..., { keepOpen: true }) begins.
CallWebdev ==
    /\ webdev.pc = "idle"
    /\ browser.epoch < MaxBrowserCalls
    /\ \E fn \in {"captureFullBrowser", "testSession"}, waitForText, closed \in BOOLEAN :
          /\ webdev' = [WebdevIdle EXCEPT !.fn = fn, !.waitForText = waitForText,
                                          !.pc = "navigate"]
          /\ browser' = WithBrowserStarts(browser, TRUE, closed)

\* await chrome.navigate({ url }) settles.
WebdevNavigates ==
    /\ webdev.pc = "navigate"
    /\ \E ok \in BOOLEAN :
          /\ webdev' = [webdev EXCEPT !.pc = IF ok /\ webdev.waitForText THEN "waitFor"
                                             ELSE "withBrowser"]
          /\ browser' = [ChromeToolCall(browser) EXCEPT
                            !.pc = IF ok /\ webdev.waitForText THEN "fn" ELSE "finally",
                            !.outcome = IF ok THEN "returned" ELSE "threw"]

\* await chrome.waitFor({ text: waitForText }) settles.
WebdevWaitsForText ==
    /\ webdev.pc = "waitFor"
    /\ \E ok \in BOOLEAN :
          /\ webdev' = [webdev EXCEPT !.pc = "withBrowser"]
          /\ browser' = [ChromeToolCall(browser) EXCEPT
                            !.pc = "finally",
                            !.outcome = IF ok THEN "returned" ELSE "threw"]

\* withBrowser's finally block, then its await in the caller: an error of
\* the navigation leaves captureFullBrowser and testSession here.
WebdevWithBrowserEnds ==
    /\ webdev.pc = "withBrowser"
    /\ \E closed \in BOOLEAN : browser' = WithBrowserFinally(browser, closed)
    /\ webdev' = IF browser.outcome = "threw"
                 THEN [webdev EXCEPT !.pc = "done", !.outcome = "threw"]
                 ELSE [webdev EXCEPT !.pc = IF webdev.fn = "testSession" THEN "session"
                                            ELSE "capture"]

\* captureFullBrowser: await captureForReview(...) settles.
WebdevCaptures ==
    /\ webdev.pc = "capture"
    /\ \E ok \in BOOLEAN :
          webdev' = IF ok THEN [webdev EXCEPT !.pc = "quit", !.outcome = "returned"]
                    ELSE [webdev EXCEPT !.pc = "done", !.outcome = "threw"]
    /\ UNCHANGED browser

\* testSession: fn(session) uses the page, or closes the connection.
SessionUsesChrome ==
    /\ webdev.pc = "session"
    /\ \/ browser' = ChromeToolCall(browser) /\ browser.runtime = 0
       \/ \E closed \in BOOLEAN : browser' = closeChrome(browser, closed) /\ browser.runtime # 0
    /\ UNCHANGED webdev

\* testSession: try { return await fn(session) }: fn returns or throws, and
\* the finally block is entered.
SessionFnEnds ==
    /\ webdev.pc = "session"
    /\ \E how \in {"returned", "threw"} :
          webdev' = [webdev EXCEPT !.pc = "quit", !.outcome = how]
    /\ UNCHANGED browser

\* await quitBrowser(): the last statement of captureFullBrowser, the
\* finally block of testSession.
WebdevQuitsBrowser ==
    /\ webdev.pc = "quit"
    /\ \E closed \in BOOLEAN : browser' = quitBrowser(browser, closed)
    /\ webdev' = [webdev EXCEPT !.pc = "done"]

\* The call is over; the caller goes on.
WebdevCallOver ==
    /\ webdev.pc = "done"
    /\ webdev' = WebdevIdle
    /\ browser' = [browser EXCEPT !.pc = "idle"]

NextWebdev ==
    /\ UNCHANGED <<pureVars, convVars, tempVars, executor, gh, workitem, script, waiter,
                   chrome, app, peek>>
    /\ \/ CallWebdev
       \/ WebdevNavigates
       \/ WebdevWaitsForText
       \/ WebdevWithBrowserEnds
       \/ WebdevCaptures
       \/ SessionUsesChrome
       \/ SessionFnEnds
       \/ WebdevQuitsBrowser
       \/ WebdevCallOver

SpecWebdev == InitWebdev /\ [][NextWebdev]_vars

\* No browser runs and no MCP server process or connection is left.
NoBrowserLeft == browser.runtime = 0 /\ browser.chrome = {} /\ browser.mcp = {}

\* C25 as stated: when testSession is over, however it ended, the browser
\* has been quit.
C25_TestSessionQuitsBrowser ==
    (webdev.fn = "testSession" /\ webdev.pc = "done") => NoBrowserLeft

\* C26 as stated: when captureFullBrowser is over, with a capture or with an
\* error, no browser is running.
C26_CaptureLeavesNoBrowser ==
    (webdev.fn = "captureFullBrowser" /\ webdev.pc = "done") => NoBrowserLeft

(***************************************************************************)
(* runWorkflow and runAndWatch on their own, with the scheduling of their  *)
(* awaits: a gh command that was started settles and a timer that was set  *)
(* fires, so the trigger and every turn of the polling loop are taken.     *)
(***************************************************************************)
NextRunWorkflow ==
    /\ UNCHANGED <<pureVars, convVars, tempVars, moreVars, browser, executor, workitem, script, waiter>>
    /\ \/ CallRunWorkflow
       \/ TriggerWorkflow
       \/ GithubStartsRun
       \/ OtherRunAppears
       \/ RunWorkflowPolls
       \/ RunAndWatchEnds
       \/ GhCallOver

SpecRunWorkflow ==
    /\ InitGh
    /\ [][NextRunWorkflow]_vars
    /\ WF_vars(TriggerWorkflow /\ NextRunWorkflow)
    /\ WF_vars(RunWorkflowPolls /\ NextRunWorkflow)

\* The time of the last listing of the loop of runWorkflow, 0 before the
\* first.
LastRunList == IF gh.polls[2] < 0 THEN 0 ELSE gh.polls[2]

\* C27: runWorkflow comes to an end.  A call that has been made leaves its
\* trigger and its loop; a failed trigger is thrown on before any listing
\* of the loop; the loop makes at most 30 listings, one for each attempt
\* counted and one more when it returns, each 2000 ms after the one before;
\* and it is left with the id of a run or with the timeout error after 30
\* listings.
C27_RunWorkflowTerminates ==
    /\ [](gh.fn \in {"runWorkflow", "runAndWatch"} =>
            /\ gh.attempts <= 30
            /\ LastRunList <= 30 * 2000
            /\ LastRunList \in {gh.attempts * 2000, (gh.attempts + 1) * 2000}
            /\ (gh.pc = "poll" \/ gh.error = "timeout") => LastRunList = gh.attempts * 2000
            /\ gh.polls[1] >= 0 => gh.polls[2] - gh.polls[1] = 2000
            /\ (gh.outcome = "threw" /\ "workflow run" \in gh.failed)
                  => gh.error = "gh" /\ gh.polls = <<-1, -1>>
            /\ (gh.outcome = "threw" /\ gh.error = "timeout") => gh.attempts = 30
            /\ (gh.fn = "runWorkflow" /\ gh.pc = "done")
                  => \/ gh.outcome = "returned" /\ gh.value > 0
                     \/ gh.outcome = "threw" /\ gh.error \in {"gh", "timeout"})
    /\ (gh.pc \in {"trigger", "poll"}) ~> (gh.pc \in {"watch", "done"})

\* C27 witness: runWorkflow has thrown the timeout error after 30 listings,
\* the last one 60000 ms after the trigger.
C27_Witness ==
    /\ gh.fn = "runWorkflow" /\ gh.pc = "done"
    /\ gh.outcome = "threw" /\ gh.error = "timeout"
    /\ gh.attempts = 30 /\ gh.polls = <<58000, 60000>>

\* The download step of the run has begun: the try block was entered.
DownloadStarted == <<"mkdir", "temp">> \in script.effects

\* C28: in a run without --dry-run, once the download step has begun and
\* has been left, by its end or by a failed mkdir, download or copy, the
\* directory .agent-scripts-temp has been removed.
C28_TempDirRemoved ==
    (~script.dryRun /\ DownloadStarted /\ script.pc \in {"deps", "doc", "summary", "exit"})
        => (~script.temp /\ <<"rm", "temp">> \in script.effects)

\* C28 witness: a setup run has exited after a copy failed (the download
\* was made, no rules file was written) and the directory is gone.
C28_Witness ==
    /\ script.which = "setup" /\ ~script.dryRun /\ script.pc = "exit" /\ script.failed
    /\ <<"curl", "tarball">> \in script.effects /\ <<"copy", "lib">> \in script.effects
    /\ <<"write", "agent-scripts.md">> \notin script.effects
    /\ ~script.temp /\ <<"rm", "temp">> \in script.effects

(***************************************************************************)
(* withApp(appName, fn, options) of the peekaboo convenience functions.    *)
(* app is the call: quitAfterArg the option as passed ("omitted", "true"   *)
(* or "false") and quitAfter its value, running whether the app runs,      *)
(* launched whether launchApp returned, fnCalled and fnEnd whether fn was   *)
(* invoked and how it ended (with fnValue, what it returned or threw),      *)
(* quitCalled whether quitApp was called, and outcome and value how the     *)
(* call of withApp ended; a value is <<"fn", v>> for the v of a callback,   *)
(* <<"launch", 0>> and <<"quit", 0>> for the errors of launchApp, quitApp. *)
(***************************************************************************)
\* What a callback returns or throws.
MaxFnValue == 3

FnValues == 1..MaxFnValue

AppIdle ==
    [pc |-> "idle", quitAfterArg |-> "omitted", quitAfter |-> FALSE, running |-> FALSE,
     launched |-> FALSE, fnCalled |-> FALSE, fnEnd |-> "none", fnValue |-> <<"none", 0>>,
     quitCalled |-> FALSE, outcome |-> "none", value |-> <<"none", 0>>]

InitApp ==
    /\ app = AppIdle
    /\ chrome = <<>> /\ webdev = <<>> /\ peek = <<>>
    /\ IdleBase /\ IdleRest

\* withApp(appName, fn, options = {}): const { quitAfter = false } = options.
CallWithApp ==
    /\ app.pc = "idle"
    /\ \E arg \in {"omitted", "true", "false"} :
          app' = [AppIdle EXCEPT !.running = app.running, !.quitAfterArg = arg,
                                 !.quitAfter = (arg = "true"), !.pc = "launch"]

\* await launchApp(appName): app.launch settles, and unwrap throws when it
\* did not succeed.
LaunchSettled(a, ok) ==
    IF ok THEN [a EXCEPT !.running = TRUE, !.launched = TRUE, !.pc = "sleep"]
    ELSE [a EXCEPT !.pc = "done", !.outcome = "threw", !.value = <<"launch", 0>>]

AppLaunches ==
    /\ app.pc = "launch"
    /\ \E ok \in BOOLEAN : app' = LaunchSettled(app, ok)

\* The 500 ms timer fires; try { return await fn() }: fn is invoked.
AppFnInvoked ==
    /\ app.pc = "sleep"
    /\ app' = [app EXCEPT !.fnCalled = TRUE, !.pc = "fn"]

\* fn uses the app, which may quit under it.
AppStops ==
    /\ app.pc = "fn"
    /\ app.running
    /\ app' = [app EXCEPT !.running = FALSE]

\* fn returns a value, or throws one.
AppFnEnds ==
    /\ app.pc = "fn"
    /\ \E how \in {"returned", "threw"}, v \in FnValues :
          app' = [app EXCEPT !.fnEnd = how, !.fnValue = <<"fn", v>>, !.pc = "finally"]

\* The call ends as fn ended.
EndsAsFn(a) == [a EXCEPT !.pc = "done", !.outcome = a.fnEnd, !.value = a.fnValue]

\* A finally block that quits the app whatever quitAfter is.
QuitAlways(a) == [a EXCEPT !.quitCalled = TRUE, !.pc = "quit"]

\* finally { if (quitAfter) { ... await quitApp(appName) ... } }
WithAppFinally(a) ==
    IF a.quitAfter THEN [a EXCEPT !.quitCalled = TRUE, !.pc = "quit"] ELSE EndsAsFn(a)

AppFinally ==
    /\ app.pc = "finally"
    /\ app' = WithAppFinally(app)

\* A quit whose error is not caught: it replaces what fn returned or threw.
QuitUncaught(a, ok) ==
    IF ok THEN EndsAsFn([a EXCEPT !.running = FALSE])
    ELSE [a EXCEPT !.pc = "done", !.outcome = "threw", !.value = <<"quit", 0>>]

\* try { await quitApp(appName) } catch {}: app.quit settles, the error that
\* unwrap throws for a failure is ignored.
QuitSettled(a, ok) == EndsAsFn(IF ok THEN [a EXCEPT !.running = FALSE] ELSE a)

AppQuits ==
    /\ app.pc = "quit"
    /\ \E ok \in BOOLEAN : app' = QuitSettled(app, ok)

\* The call is over; the caller goes on, and the app is as it was left.
AppCallOver ==
    /\ app.pc = "done"
    /\ app' = [AppIdle EXCEPT !.running = app.running]

NextApp ==
    /\ UNCHANGED <<pureVars, convVars, tempVars, restVars, chrome, webdev, peek>>
    /\ \/ CallWithApp
       \/ AppLaunches
       \/ AppFnInvoked
       \/ AppStops
       \/ AppFnEnds
       \/ AppFinally
       \/ AppQuits
       \/ AppCallOver

SpecApp == InitApp /\ [][NextApp]_vars

\* C29: fn is invoked only after launchApp has returned, and a failed launch
\* is thrown on with fn never invoked and no quit; after fn the app is quit
\* if and only if quitAfter was passed as true, whether fn returned or
\* threw; and the call ends as fn ended, with what fn returned or threw,
\* whether or not the quit went through.
C29_WithApp ==
    /\ app.fnCalled => app.launched
    /\ app.quitCalled => (app.fnEnd # "none" /\ app.quitAfterArg = "true")
    /\ app.pc = "done" =>
          IF app.launched
          THEN /\ app.fnCalled /\ app.fnEnd \in {"returned", "threw"}
               /\ app.quitCalled <=> app.quitAfterArg = "true"
               /\ app.outcome = app.fnEnd /\ app.value = app.fnValue
          ELSE /\ ~app.fnCalled /\ ~app.quitCalled
               /\ app.outcome = "threw" /\ app.value = <<"launch", 0>>

\* C29 witness: with quitAfter true fn threw 2, the quit failed (the app
\* still runs), and the call has thrown 2.
C29_Witness ==
    /\ app.pc = "done" /\ app.quitAfterArg = "true" /\ app.quitCalled
    /\ app.fnEnd = "threw" /\ app.fnValue = <<"fn", 2>> /\ app.running
    /\ app.outcome = "threw" /\ app.value = <<"fn", 2>>

(***************************************************************************)
(* unwrap(result, operation) of the peekaboo convenience functions.  peek  *)
(* is a call of a convenience function: the operation it names, the result *)
(* that the executor gave it, and what unwrap returned or threw.           *)
(***************************************************************************)
PeekOperations == {"launch", "quit", "see"}

\* What the executor has parsed from the output of the CLI.
PeekDatas ==
    { Missing, JNull, JStr(<<>>), JStr(<<"ok">>), JNum(0), JNum(5),
      JArr(<<>>), JArr(<<JObj(<< <<"data", JNum(5)>> >>)>>),
      JObj(<<>>),
      JObj(<< <<"path", JStr(<<"/tmp/a.png">>)>> >>),
      JObj(<< <<"Data", JNum(5)>> >>),
      JObj(<< <<"data", JNull>> >>),
      JObj(<< <<"data", JStr(<<>>)>> >>),
      JObj(<< <<"data", JObj(<< <<"path", JStr(<<"/tmp/a.png">>)>> >>)>> >>),
      JObj(<< <<"success", JNum(1)>>, <<"data", JArr(<<JNum(5)>>)>> >>),
      JObj(<< <<"data", JObj(<< <<"data", JNum(5)>> >>)>> >>) }

PeekResults ==
    {Success(d) : d \in PeekDatas}
        \cup {Failure(e) : e \in {Missing, JStr(<<>>), JStr(<<"App not found">>)}}

PeekIdle ==
    [pc |-> "idle", operation |-> "none", result |-> Success(Missing),
     out |-> [threw |-> FALSE, value |-> JUndefined]]

InitPeek ==
    /\ peek = PeekIdle
    /\ chrome = <<>> /\ webdev = <<>> /\ app = <<>>
    /\ IdleBase /\ IdleRest

\* What reading a property gives: undefined for one that is not there.
Read(value) == IF value[1] = "missing" THEN JUndefined ELSE value

\* typeof value === "object".
TypeofObject(value) == value[1] \in {"obj", "arr", "null"}

\* key in value, for a key that is no index and no built-in property.
In(key, value) == value[1] = "obj" /\ HasField(value, key)

\* unwrap without the step into a nested data field.
unwrapOnce(result, operation) ==
    IF ~result.success
    THEN [threw |-> TRUE,
          value |-> JStr(<<"Peekaboo ", operation, " failed: ">>
                          \o (IF Truthy(result.error) THEN String(result.error)
                              ELSE <<"Unknown error">>))]
    ELSE [threw |-> FALSE, value |-> Read(result.data)]

\* function unwrap<T>(result: PeekabooResult<T>, operation: string): T
peekabooUnwrap(result, operation) ==
    IF ~result.success
    THEN [threw |-> TRUE,
          value |-> JStr(<<"Peekaboo ", operation, " failed: ">>
                          \o (IF Truthy(result.error) THEN String(result.error)
                              ELSE <<"Unknown error">>))]
    ELSE LET data == result.data IN
         IF Truthy(data) /\ TypeofObject(data) /\ In("data", data)
         THEN [threw |-> FALSE, value |-> Field(data, "data")]
         ELSE [threw |-> FALSE, value |-> Read(result.data)]

\* A convenience function has the result of its command.
PeekabooResultArrives ==
    /\ peek.pc = "idle"
    /\ \E operation \in PeekOperations, result \in PeekResults :
          peek' = [PeekIdle EXCEPT !.pc = "result", !.operation = operation,
                                   !.result = result]

\* unwrap(result, operation).
PeekabooUnwraps ==
    /\ peek.pc = "result"
    /\ peek' = [peek EXCEPT !.pc = "done", !.out = peekabooUnwrap(peek.result, peek.operation)]

\* The convenience function is over.
PeekabooCallOver ==
    /\ peek.pc = "done"
    /\ peek' = PeekIdle

NextPeek ==
    /\ UNCHANGED <<pureVars, convVars, tempVars, restVars, chrome, webdev, app>>
    /\ \/ PeekabooResultArrives
       \/ PeekabooUnwraps
       \/ PeekabooCallOver

SpecPeek == InitPeek /\ [][NextPeek]_vars

\* The positions of a "data" field in the fields of an object value.
DataFields(value) == {i \in 1..Len(value[2]) : value[2][i][1] = "data"}

\* C30: for a result that is no success unwrap throws an error whose
\* message begins "Peekaboo <operation> failed: " and goes on; for a success
\* it returns result.data.data when result.data is an object with a "data"
\* field, and result.data itself otherwise.
C30_Unwrap ==
    peek.pc = "done" =>
        IF ~peek.result.success
        THEN /\ peek.out.threw
             /\ Len(peek.out.value[2]) > 3
             /\ SubSeq(peek.out.value[2], 1, 3) = <<"Peekaboo ", peek.operation, " failed: ">>
        ELSE /\ ~peek.out.threw
             /\ IF peek.result.data[1] = "obj" /\ DataFields(peek.result.data) # {}
                THEN \E i \in DataFields(peek.result.data) :
                        /\ peek.out.value[1] = peek.result.data[2][i][2][1]
                        /\ peek.out.value = peek.result.data[2][i][2]
                ELSE IF peek.result.data[1] = "missing" THEN peek.out.value[1] = "undefined"
                ELSE /\ peek.out.value[1] = peek.result.data[1]
                     /\ peek.out.value = peek.result.data

\* C30 witness: unwrap has returned the inner object of a double-nested
\* result.
C30_Witness ==
    /\ peek.pc = "done" /\ peek.result.success /\ ~peek.out.threw
    /\ peek.result.data = JObj(<< <<"data", JObj(<< <<"path", JStr(<<"/tmp/a.png">>)>> >>)>> >>)
    /\ peek.out.value = JObj(<< <<"path", JStr(<<"/tmp/a.png">>)>> >>)

====
